---- MODULE Spec2Model ----
(***************************************************************************)
(* Cost-basis inventory engines (FIFO lots, weighted-average balances)     *)
(* and the incremental rebuild controller that feeds them from the         *)
(* transaction store.                                                      *)
(*                                                                         *)
(* Numbers.  The program computes with decimal.Decimal.  Here a quantity   *)
(* is an integer number of units of 1/QtyPerShare share, money is an       *)
(* integer number of cents, an average cost is an integer number of        *)
(* 1/10000 currency units per share and an exchange rate an integer number *)
(* of 1/10000.  quantize(..., ROUND_HALF_UP) is RoundDiv.  The program     *)
(* carries 28 significant digits between a division and the following      *)
(* quantize; for the quantities and amounts enumerated below the quotient  *)
(* never lies within 10^-27 of a rounding boundary without lying on it, so *)
(* exact rational rounding gives the program's result.                     *)
(***************************************************************************)
EXTENDS Integers, Sequences, FiniteSets, TLC

----------------------------------------------------------------------------
(* Bounds and input sets *)

MaxTx == 3          \* transactions submitted (process / add_transaction calls) in one run
MaxFail == 1        \* store failures injected at commit
MaxMaint == 2        \* restarts and explicit rebuilds
\* transactions added, and stored transactions edited or deleted, in one run
\* of the editing specification
MaxEditTx == 2
MaxEdits == 1
\* transactions stored before two calls run side by side
MaxPrior == 1
\* frames handed to add_stock_from_df
MaxFrames == 2
\* transactions in the foreign currency
MaxRateTx == 2
\* buys and sells of one account in a run without short positions
MaxLongTx == 4
\* days in the date range of the return rate calculation
MaxDays == 3
LongQtys == {1, 2, 3}

Ledgers == {1, 2}
Codes == {"A"}
Accounts == {"a1", "a2", "b1"}
Dates == {1, 2}
Qtys == {1, 2}
Amounts == {10}
Currencies == {"CNY"}

\* accounts table: the ledger each account name belongs to
AccountLedger == [a \in Accounts |-> IF a = "b1" THEN 2 ELSE 1]

\* ledgers table: cost_method (FIFO is DEFAULT_COST_METHOD)
CostMethod == [l \in Ledgers |-> IF l = 2 THEN "WAC" ELSE "FIFO"]

QtyPerShare == 2 * 10000          \* one unit is 0.00005 share
EPS == QtyPerShare \div 10000     \* Decimal("0.0001") share, in units
RateOne == 10000                  \* Decimal("1.0") as a 4-decimal rate

Keys == Ledgers \X Codes

----------------------------------------------------------------------------
(* Decimal helpers *)

Abs(x) == IF x < 0 THEN -x ELSE x

\* (n / d).quantize(step, rounding=ROUND_HALF_UP): nearest, ties away from 0
RoundDiv(n, d) ==
    LET an == Abs(n)
        ad == Abs(d)
        q  == (2 * an + ad) \div (2 * ad)
    IN IF (n < 0) = (d < 0) THEN q ELSE -q

RECURSIVE SumQuantity(_)
SumQuantity(s) == IF s = <<>> THEN 0 ELSE Head(s).quantity + SumQuantity(Tail(s))

RECURSIVE SumBookValue(_)
SumBookValue(s) == IF s = <<>> THEN 0 ELSE Head(s).book_value + SumBookValue(Tail(s))

RECURSIVE SumCost(_)
SumCost(s) == IF s = <<>> THEN 0 ELSE Head(s).cost + SumCost(Tail(s))

RECURSIVE SumIncome(_)
SumIncome(s) == IF s = <<>> THEN 0 ELSE Head(s).income + SumIncome(Tail(s))

RECURSIVE RemoveFirst(_, _)
\* list.remove(x): drops the first element equal to x
RemoveFirst(s, x) ==
    IF s = <<>> THEN <<>>
    ELSE IF Head(s) = x THEN Tail(s)
    ELSE <<Head(s)>> \o RemoveFirst(Tail(s), x)

RECURSIVE ReplaceFirst(_, _, _)
\* in-place mutation of the list element x, which becomes y
ReplaceFirst(s, x, y) ==
    IF s = <<>> THEN <<>>
    ELSE IF Head(s) = x THEN <<y>> \o Tail(s)
    ELSE <<Head(s)>> \o ReplaceFirst(Tail(s), x, y)

RECURSIVE InsertByDate(_, _)
InsertByDate(s, x) ==
    IF s = <<>> THEN <<x>>
    ELSE IF Head(s).date <= x.date THEN <<Head(s)>> \o InsertByDate(Tail(s), x)
    ELSE <<x>> \o s

RECURSIVE SortByDate(_)
\* list.sort(key=lambda x: x.date): stable
SortByDate(s) ==
    IF s = <<>> THEN <<>>
    ELSE InsertByDate(SortByDate(SubSeq(s, 1, Len(s) - 1)), s[Len(s)])

----------------------------------------------------------------------------
(* FIFO engine: utils/fifo_framework.py *)

_make_key(ledger_id, code) == <<ledger_id, code>>

\* the lot a transaction tx creates (batch_id is the transaction's id)
InventoryRecord(tx, quantity, book_value) ==
    [batch_id |-> tx.id, date |-> tx.date, code |-> tx.code,
     quantity |-> quantity, book_value |-> book_value, account |-> tx.account,
     ledger_id |-> tx.ledger_id, currency |-> tx.currency,
     exchange_rate |-> tx.exchange_rate]

\* FIFOInventory.__init__ / clear_inventory: no lots, no events; keys lists
\* the keys of the inventory dict in the order they were inserted
EmptyFIFO ==
    [inventory |-> [k \in Keys |-> <<>>], realized_pl_details |-> <<>>,
     keys |-> <<>>]

\* if key not in self.inventory: self.inventory[key] = []
InsertKey(keys, key) ==
    IF \E i \in 1..Len(keys) : keys[i] = key THEN keys ELSE Append(keys, key)

\* the (ledger, code) groups of a frame in groupby's sorted order
KeyOrder == CHOOSE s \in [1..Cardinality(Keys) -> Keys] :
                \A i, j \in 1..Cardinality(Keys) : i < j => s[i][1] < s[j][1]

RECURSIVE AllBatches(_, _)
\* every lot of every key, as self.inventory.values() yields them
AllBatches(inventory, keys) ==
    IF keys = <<>> THEN <<>>
    ELSE inventory[Head(keys)] \o AllBatches(inventory, Tail(keys))

RECURSIVE FindBatch(_, _)
FindBatch(s, batch_id) ==
    IF s = <<>> THEN <<>>
    ELSE IF Head(s).batch_id = batch_id THEN <<Head(s)>>
    ELSE FindBatch(Tail(s), batch_id)

\* -> <<original_quantity, original_book_value>>
_get_original_batch_info(inventory, keys, batch_id, sold_quantity, sold_book_value) ==
    LET found == FindBatch(AllBatches(inventory, keys), batch_id)
    IN IF found # <<>>
       THEN <<found[1].quantity + sold_quantity,
              found[1].book_value + sold_book_value>>
       ELSE <<sold_quantity, sold_book_value>>

\* variant: the positive lots of every account under the key
BatchesOfAnyAccount(inventory, ledger_id, code, account, currency) ==
    SelectSeq(inventory[_make_key(ledger_id, code)],
              LAMBDA b : b.quantity > 0 /\ b.currency = currency)

_get_account_batches(inventory, ledger_id, code, account, currency) ==
    SelectSeq(inventory[_make_key(ledger_id, code)],
              LAMBDA b : b.account = account /\ b.quantity > 0
                         /\ b.currency = currency)

_get_short_positions(inventory, ledger_id, code, account) ==
    SortByDate(SelectSeq(inventory[_make_key(ledger_id, code)],
                         LAMBDA b : b.account = account /\ b.quantity < 0))

RECURSIVE RemovalKeepingBookValue(_, _, _, _)
\* variant: a partial sale leaves the batch's book value as it was
RemovalKeepingBookValue(lots, batches, remaining_quantity, removed_records) ==
    IF batches = <<>> \/ remaining_quantity <= 0
    THEN [lots |-> lots, remaining_quantity |-> remaining_quantity,
          removed_records |-> removed_records]
    ELSE LET batch == Head(batches)
         IN IF batch.quantity <= remaining_quantity
            THEN RemovalKeepingBookValue(
                     RemoveFirst(lots, batch), Tail(batches),
                     remaining_quantity - batch.quantity,
                     Append(removed_records,
                            [batch_id |-> batch.batch_id,
                             quantity |-> batch.quantity,
                             book_value |-> batch.book_value,
                             cost_exchange_rate |-> batch.exchange_rate]))
            ELSE RemovalKeepingBookValue(
                     ReplaceFirst(lots, batch,
                         [batch EXCEPT
                            !.quantity = batch.quantity - remaining_quantity]),
                     Tail(batches), 0,
                     Append(removed_records,
                            [batch_id |-> batch.batch_id,
                             quantity |-> remaining_quantity,
                             book_value |->
                                 RoundDiv(remaining_quantity * batch.book_value,
                                          batch.quantity),
                             cost_exchange_rate |-> batch.exchange_rate]))

RECURSIVE _process_inventory_removal(_, _, _, _)
\* lots: the key's list; batches: the snapshot being iterated;
\* -> [lots, remaining_quantity, removed_records]
_process_inventory_removal(lots, batches, remaining_quantity, removed_records) ==
    IF batches = <<>> \/ remaining_quantity <= 0
    THEN [lots |-> lots, remaining_quantity |-> remaining_quantity,
          removed_records |-> removed_records]
    ELSE LET batch == Head(batches)
         IN IF batch.quantity <= remaining_quantity
            THEN _process_inventory_removal(
                     RemoveFirst(lots, batch), Tail(batches),
                     remaining_quantity - batch.quantity,
                     Append(removed_records,
                            [batch_id |-> batch.batch_id,
                             quantity |-> batch.quantity,
                             book_value |-> batch.book_value,
                             cost_exchange_rate |-> batch.exchange_rate]))
            ELSE LET allocated_book_value ==
                         RoundDiv(remaining_quantity * batch.book_value,
                                  batch.quantity)
                 IN _process_inventory_removal(
                        ReplaceFirst(lots, batch,
                            [batch EXCEPT
                               !.quantity = batch.quantity - remaining_quantity,
                               !.book_value = batch.book_value - allocated_book_value]),
                        Tail(batches), 0,
                        Append(removed_records,
                               [batch_id |-> batch.batch_id,
                                quantity |-> remaining_quantity,
                                book_value |-> allocated_book_value,
                                cost_exchange_rate |-> batch.exchange_rate]))

\* variant: the short lot is valued at the whole proceeds of the sale
ShortAtFullProceeds(tx, quantity) ==
    [lot |-> InventoryRecord(tx, -quantity, -tx.book_value),
     removed |-> [batch_id |-> tx.id, quantity |-> -quantity,
                  book_value |-> -tx.book_value,
                  cost_exchange_rate |-> tx.exchange_rate]]

\* tx: the sale (magnitudes), quantity: what the lots did not cover
\* -> [lot, removed]: the short lot appended to the key's list and the
\* record appended to removed_records
_create_short_position(tx, quantity) ==
    LET allocated_short_book_value ==
            RoundDiv(quantity * tx.book_value, tx.quantity)
    IN [lot |-> InventoryRecord(tx, -quantity, -allocated_short_book_value),
        removed |-> [batch_id |-> tx.id, quantity |-> -quantity,
                     book_value |-> -allocated_short_book_value,
                     cost_exchange_rate |-> tx.exchange_rate]]

RECURSIVE PLLoop(_, _, _, _, _)
\* the for loop of _calculate_realized_pl over c.normal_records[i..];
\* c: [normal_records, total_sell_quantity, total_sell_book_value, tx, keys]
PLLoop(inventory, c, i, allocated_income, pl_details) ==
    IF i > Len(c.normal_records) THEN pl_details
    ELSE
      LET normal_records == c.normal_records
          total_sell_quantity == c.total_sell_quantity
          total_sell_book_value == c.total_sell_book_value
          tx == c.tx
          record == normal_records[i]
          info == _get_original_batch_info(inventory, c.keys, record.batch_id,
                                           record.quantity, record.book_value)
          original_quantity == info[1]
          original_book_value == info[2]
          last == (i = Len(normal_records))
          batch_income ==
              IF last THEN total_sell_book_value - allocated_income
              ELSE RoundDiv(record.quantity * total_sell_book_value,
                            total_sell_quantity)
          pl_detail ==
              [date |-> tx.date, transaction_id |-> tx.id,
               inventory_id |-> record.batch_id, code |-> tx.code,
               original_quantity |-> original_quantity,
               original_book_value |-> Abs(original_book_value),
               sold_quantity |-> record.quantity,
               remaining_quantity |-> original_quantity - record.quantity,
               remaining_book_value |->
                   Abs(original_book_value - record.book_value),
               income |-> batch_income,
               cost |-> Abs(record.book_value),
               profit |-> batch_income - Abs(record.book_value),
               currency |-> tx.currency, account |-> tx.account,
               exchange_rate |-> tx.exchange_rate,
               cost_exchange_rate |-> record.cost_exchange_rate]
      IN PLLoop(inventory, c, i + 1,
                IF last THEN allocated_income
                ELSE allocated_income + batch_income,
                Append(pl_details, pl_detail))

\* original_book_value / original_quantity raises on a zero divisor: the
\* batch found under a removed record's id holds the opposite quantity
PLRaises(inventory, keys, removed_records) ==
    \E i \in 1..Len(removed_records) :
        /\ removed_records[i].quantity > 0
        /\ _get_original_batch_info(inventory, keys, removed_records[i].batch_id,
                                    removed_records[i].quantity,
                                    removed_records[i].book_value)[1] = 0

\* variant: the last consumed lot is given its rounded proportion like the
\* others, instead of the total minus what was allocated
RealizedPLAllProportional(inventory, keys, removed_records, tx) ==
    LET normal_records == SelectSeq(removed_records, LAMBDA r : r.quantity > 0)
        total_sell_quantity == SumQuantity(normal_records)
        total_sell_book_value ==
            RoundDiv(tx.book_value * total_sell_quantity, tx.quantity)
        pl_details ==
            PLLoop(inventory,
                   [normal_records |-> normal_records,
                    total_sell_quantity |-> total_sell_quantity,
                    total_sell_book_value |-> total_sell_book_value,
                    tx |-> tx, keys |-> keys],
                   1, 0, <<>>)
    IN IF normal_records = <<>> THEN <<>>
       ELSE [i \in 1..Len(pl_details) |->
                [pl_details[i] EXCEPT
                   !.income = RoundDiv(normal_records[i].quantity
                                         * total_sell_book_value,
                                       total_sell_quantity),
                   !.profit = RoundDiv(normal_records[i].quantity
                                         * total_sell_book_value,
                                       total_sell_quantity)
                              - Abs(normal_records[i].book_value)]]

\* tx: the sale (quantity and book_value as magnitudes) -> list of PLDetail
_calculate_realized_pl(inventory, keys, removed_records, tx) ==
    LET normal_records == SelectSeq(removed_records, LAMBDA r : r.quantity > 0)
        total_sell_quantity == SumQuantity(normal_records)
        total_sell_book_value ==
            RoundDiv(tx.book_value * total_sell_quantity, tx.quantity)
    IN IF normal_records = <<>> THEN <<>>
       ELSE PLLoop(inventory,
                   [normal_records |-> normal_records,
                    total_sell_quantity |-> total_sell_quantity,
                    total_sell_book_value |-> total_sell_book_value,
                    tx |-> tx, keys |-> keys],
                   1, 0, <<>>)

\* tx: the sale (magnitudes) -> [inventory, pl_details, raised]; a raise of
\* _calculate_realized_pl comes after the lots were removed
remove_stock(inventory, keys, tx) ==
    CHOOSE result \in {
        LET key == _make_key(tx.ledger_id, tx.code)
            short == _create_short_position(tx, rem.remaining_quantity)
            opens == rem.remaining_quantity > 0
            lots == IF opens THEN Append(rem.lots, short.lot) ELSE rem.lots
            removed_records ==
                IF opens THEN Append(rem.removed_records, short.removed)
                ELSE rem.removed_records
            inv2 == [inventory EXCEPT ![key] = lots]
            raised == PLRaises(inv2, keys, removed_records)
        IN [inventory |-> inv2,
            pl_details |-> IF removed_records # <<>> /\ ~raised
                           THEN _calculate_realized_pl(inv2, keys, removed_records, tx)
                           ELSE <<>>,
            raised |-> raised] :
        rem \in {_process_inventory_removal(
                     inventory[_make_key(tx.ledger_id, tx.code)],
                     _get_account_batches(inventory, tx.ledger_id, tx.code,
                                          tx.account, tx.currency),
                     tx.quantity, <<>>)} } : TRUE

\* -> PLDetail; the short lot is removed from the key's list by the caller
_cover_full_short_position(short_pos, cover_quantity, tx) ==
    LET short_income == Abs(short_pos.book_value)
        cover_cost_per_unit == RoundDiv(tx.book_value * QtyPerShare, tx.quantity)
        cover_cost == RoundDiv(cover_quantity * cover_cost_per_unit, QtyPerShare)
    IN [date |-> tx.date, transaction_id |-> tx.id,
        inventory_id |-> short_pos.batch_id, code |-> tx.code,
        original_quantity |-> short_pos.quantity,
        original_book_value |-> Abs(short_pos.book_value),
        sold_quantity |-> -cover_quantity,
        remaining_quantity |-> 0,
        remaining_book_value |-> 0,
        income |-> short_income,
        cost |-> cover_cost,
        profit |-> short_income - cover_cost,
        currency |-> tx.currency, account |-> tx.account,
        exchange_rate |-> tx.exchange_rate,
        cost_exchange_rate |-> short_pos.exchange_rate]

\* -> [pl, lot]: the PLDetail and the short lot as mutated in place
_cover_partial_short_position(short_pos, cover_quantity, tx) ==
    LET short_quantity == Abs(short_pos.quantity)
        short_book_value == Abs(short_pos.book_value)
        short_income == RoundDiv(short_book_value * cover_quantity, short_quantity)
        cover_cost_per_unit == RoundDiv(tx.book_value * QtyPerShare, tx.quantity)
        cover_cost == RoundDiv(cover_quantity * cover_cost_per_unit, QtyPerShare)
        remaining_short_quantity == short_quantity - cover_quantity
        remaining_short_book_value == short_book_value - short_income
    IN [pl |-> [date |-> tx.date, transaction_id |-> tx.id,
                inventory_id |-> short_pos.batch_id, code |-> tx.code,
                original_quantity |-> -short_quantity,
                original_book_value |-> short_book_value,
                sold_quantity |-> -cover_quantity,
                remaining_quantity |-> -remaining_short_quantity,
                remaining_book_value |-> remaining_short_book_value,
                income |-> Abs(short_income),
                cost |-> cover_cost,
                profit |-> short_income - cover_cost,
                currency |-> tx.currency, account |-> tx.account,
                exchange_rate |-> tx.exchange_rate,
                cost_exchange_rate |-> short_pos.exchange_rate],
        lot |-> [short_pos EXCEPT !.quantity = -remaining_short_quantity,
                                  !.book_value = -remaining_short_book_value]]

\* -> [pl, lots]: one short lot met by the loop of cover_short_position
_process_short_position_cover(lots, short_pos, remaining_quantity, tx) ==
    IF Abs(short_pos.quantity) <= remaining_quantity
    THEN [pl |-> _cover_full_short_position(short_pos,
                                            Abs(short_pos.quantity), tx),
          lots |-> RemoveFirst(lots, short_pos)]
    ELSE LET r == _cover_partial_short_position(short_pos, remaining_quantity, tx)
         IN [pl |-> r.pl, lots |-> ReplaceFirst(lots, short_pos, r.lot)]

\* what the loop of cover_short_position carries on with after one cover
CoverRemaining(cover_result, remaining_quantity) ==
    cover_result.remaining_quantity

RECURSIVE CoverLoop(_, _, _, _, _)
\* the for loop of cover_short_position over the snapshot short_positions
CoverLoop(lots, short_positions, remaining_quantity, tx, pl_details) ==
    IF short_positions = <<>> \/ remaining_quantity <= 0
    THEN [lots |-> lots, remaining_quantity |-> remaining_quantity,
          pl_details |-> pl_details]
    ELSE CHOOSE result \in {
             CoverLoop(r.lots, Tail(short_positions),
                       CoverRemaining(r.pl, remaining_quantity), tx,
                       Append(pl_details, r.pl)) :
             r \in {_process_short_position_cover(lots, Head(short_positions),
                                                  remaining_quantity, tx)} } : TRUE

\* tx: the buy (magnitudes) -> [lots, remaining_quantity, pl_details]
cover_short_position(inventory, tx) ==
    CoverLoop(inventory[_make_key(tx.ledger_id, tx.code)],
              _get_short_positions(inventory, tx.ledger_id, tx.code, tx.account),
              tx.quantity, tx, <<>>)

\* variant: the new lot stays at the end of the key's list, unsorted
BuyWithoutSort(fifo, tx) ==
    LET key == _make_key(tx.ledger_id, tx.code)
        c == cover_short_position(fifo.inventory, tx)
        allocated_book_value ==
            RoundDiv(c.remaining_quantity * tx.book_value, tx.quantity)
        record == InventoryRecord(tx, c.remaining_quantity, allocated_book_value)
        lots == IF c.remaining_quantity > 0 THEN Append(c.lots, record)
                ELSE c.lots
    IN [inventory |-> [fifo.inventory EXCEPT ![key] = lots],
        realized_pl_details |-> fifo.realized_pl_details \o c.pl_details,
        keys |-> InsertKey(fifo.keys, key),
        raised |-> FALSE]

\* tx: the buy (magnitudes) -> [inventory, realized_pl_details, keys, raised]
FIFO_handle_buy_transaction(fifo, tx) ==
    CHOOSE result \in {
        LET key == _make_key(tx.ledger_id, tx.code)
            allocated_book_value ==
                RoundDiv(c.remaining_quantity * tx.book_value, tx.quantity)
            record == InventoryRecord(tx, c.remaining_quantity, allocated_book_value)
            lots == IF c.remaining_quantity > 0
                    THEN SortByDate(Append(c.lots, record))
                    ELSE c.lots
        IN [inventory |-> [fifo.inventory EXCEPT ![key] = lots],
            realized_pl_details |-> fifo.realized_pl_details \o c.pl_details,
            keys |-> InsertKey(fifo.keys, key),
            raised |-> FALSE] :
        c \in {cover_short_position(fifo.inventory, tx)} } : TRUE

\* tx: the sale (magnitudes) -> [inventory, realized_pl_details, keys, raised]
FIFO_handle_sell_transaction(fifo, tx) ==
    CHOOSE result \in {
        [inventory |-> r.inventory,
         realized_pl_details |-> fifo.realized_pl_details \o r.pl_details,
         keys |-> InsertKey(fifo.keys, _make_key(tx.ledger_id, tx.code)),
         raised |-> r.raised] :
        r \in {remove_stock(fifo.inventory,
                            InsertKey(fifo.keys, _make_key(tx.ledger_id, tx.code)),
                            tx)} } : TRUE

\* the duplicate check of _process_single_transaction
AlreadyProcessed(fifo, row) ==
    \E i \in 1..Len(fifo.inventory[_make_key(row.ledger_id, row.code)]) :
        LET record == fifo.inventory[_make_key(row.ledger_id, row.code)][i]
        IN record.batch_id = row.id /\ record.account = row.account

\* the columns _process_single_transaction reads from a row
Columns == {"id", "date", "code", "quantity", "book_value", "account",
            "ledger_id", "currency", "exchange_rate"}

\* the try block of _process_single_transaction: every column is there to
\* be converted; otherwise the method raises ValueError
Parses(row) == Columns \subseteq DOMAIN row

\* a call that returns without touching the engine
FIFOReturns(fifo) ==
    [inventory |-> fifo.inventory, realized_pl_details |-> fifo.realized_pl_details,
     keys |-> fifo.keys, raised |-> FALSE]

\* row: quantity signed (+buy, -sell), book_value signed
\* -> [inventory, realized_pl_details, keys, raised]
FIFO_process_single_transaction(fifo, row) ==
    LET tx == [row EXCEPT !.quantity = Abs(row.quantity),
                          !.book_value = Abs(row.book_value)]
    IN IF ~Parses(row) THEN [FIFOReturns(fifo) EXCEPT !.raised = TRUE]
       ELSE IF AlreadyProcessed(fifo, row) THEN FIFOReturns(fifo)
       ELSE IF row.quantity > 0 THEN FIFO_handle_buy_transaction(fifo, tx)
       ELSE IF row.quantity < 0 THEN FIFO_handle_sell_transaction(fifo, tx)
       ELSE FIFOReturns(fifo)

\* the engine without the raised flag
FIFOState(r) ==
    [inventory |-> r.inventory, realized_pl_details |-> r.realized_pl_details,
     keys |-> r.keys]

----------------------------------------------------------------------------
(* WAC engine: utils/wac_framework.py *)

NoBalance == [quantity |-> 0, absent |-> TRUE]

\* WACInventory.__init__ / clear_inventory: no balances, no events
EmptyWAC ==
    [inventory |-> [k \in Keys |-> [a \in Accounts |-> NoBalance]],
     realized_pl_details |-> <<>>]

HasBalance(wac, key, account) == wac.inventory[key][account] # NoBalance

\* (book_value / quantity).quantize(Decimal("0.0001")): per share
UnitPrice4(book_value, quantity) ==
    RoundDiv(book_value * 100 * QtyPerShare, quantity)

\* variant: the product is cut off after the cent instead of rounded
Cost2Truncated(quantity, avg_cost) == (quantity * avg_cost) \div (100 * QtyPerShare)

\* (quantity * avg_cost).quantize(Decimal("0.01"))
Cost2(quantity, avg_cost) == RoundDiv(quantity * avg_cost, 100 * QtyPerShare)

WACInventoryRecord(tx, quantity, total_cost, avg_cost) ==
    [code |-> tx.code, quantity |-> quantity, total_cost |-> total_cost,
     avg_cost |-> avg_cost, account |-> tx.account, ledger_id |-> tx.ledger_id,
     currency |-> tx.currency, exchange_rate |-> tx.exchange_rate]

\* the division new_total_cost / new_quantity raises on a zero divisor
WACBuyRaises(record, tx) == record.quantity + tx.quantity = 0

\* tx: the buy (magnitudes) -> [inventory, realized_pl_details, raised]
WAC_handle_buy_transaction(wac, tx) ==
    LET key == _make_key(tx.ledger_id, tx.code)
        record == wac.inventory[key][tx.account]
        new_quantity == record.quantity + tx.quantity
        new_total_cost == record.total_cost + tx.book_value
        new_avg_cost == UnitPrice4(new_total_cost, new_quantity)
        new_rate == RoundDiv(record.exchange_rate * record.quantity
                               + tx.exchange_rate * tx.quantity, new_quantity)
    IN IF ~HasBalance(wac, key, tx.account)
       THEN [inventory |-> [wac.inventory EXCEPT ![key][tx.account] =
                 WACInventoryRecord(tx, tx.quantity, tx.book_value,
                                    UnitPrice4(tx.book_value, tx.quantity))],
             realized_pl_details |-> wac.realized_pl_details,
             raised |-> FALSE]
       ELSE IF WACBuyRaises(record, tx)
       THEN [inventory |-> wac.inventory,
             realized_pl_details |-> wac.realized_pl_details,
             raised |-> TRUE]
       ELSE [inventory |-> [wac.inventory EXCEPT ![key][tx.account] =
                 [record EXCEPT !.quantity = new_quantity,
                                !.total_cost = new_total_cost,
                                !.avg_cost = new_avg_cost,
                                !.exchange_rate = new_rate]],
             realized_pl_details |-> wac.realized_pl_details,
             raised |-> FALSE]

\* variant: a balance of exactly 0.0001 is deleted as well
WACAfterSellInclusive(record, new_quantity) ==
    IF Abs(new_quantity) <= EPS THEN NoBalance
    ELSE [record EXCEPT !.quantity = new_quantity,
                        !.total_cost = Cost2(new_quantity, record.avg_cost)]

\* the balance a sale leaves: deleted when |new_quantity| < 0.0001
WACAfterSell(record, new_quantity) ==
    IF Abs(new_quantity) < EPS THEN NoBalance
    ELSE [record EXCEPT !.quantity = new_quantity,
                        !.total_cost = Cost2(new_quantity, record.avg_cost)]

\* tx: the sale (magnitudes) -> [inventory, realized_pl_details, raised]
WAC_handle_sell_transaction(wac, tx) ==
    LET key == _make_key(tx.ledger_id, tx.code)
        record == wac.inventory[key][tx.account]
        sell_cost == Cost2(tx.quantity, record.avg_cost)
        pl_detail ==
            [date |-> tx.date, transaction_id |-> tx.id, code |-> tx.code,
             sold_quantity |-> tx.quantity, avg_cost |-> record.avg_cost,
             sell_price |-> UnitPrice4(tx.book_value, tx.quantity),
             income |-> tx.book_value, cost |-> sell_cost,
             profit |-> tx.book_value - sell_cost,
             currency |-> tx.currency, account |-> tx.account,
             ledger_id |-> tx.ledger_id, exchange_rate |-> tx.exchange_rate]
    IN IF ~HasBalance(wac, key, tx.account)
       THEN [inventory |-> [wac.inventory EXCEPT ![key][tx.account] =
                 WACInventoryRecord(tx, -tx.quantity, -tx.book_value,
                                    UnitPrice4(tx.book_value, tx.quantity))],
             realized_pl_details |-> wac.realized_pl_details,
             raised |-> FALSE]
       ELSE [inventory |-> [wac.inventory EXCEPT ![key][tx.account] =
                 WACAfterSell(record, record.quantity - tx.quantity)],
             realized_pl_details |-> Append(wac.realized_pl_details, pl_detail),
             raised |-> FALSE]

\* row: quantity signed (+buy, -sell) -> [inventory, realized_pl_details, raised]
WAC_process_single_transaction(wac, row) ==
    LET tx == [row EXCEPT !.quantity = Abs(row.quantity),
                          !.book_value = Abs(row.book_value)]
    IN IF ~Parses(row)
       THEN [inventory |-> wac.inventory,
             realized_pl_details |-> wac.realized_pl_details,
             raised |-> TRUE]
       ELSE IF row.quantity > 0 THEN WAC_handle_buy_transaction(wac, tx)
       ELSE IF row.quantity < 0 THEN WAC_handle_sell_transaction(wac, tx)
       ELSE [inventory |-> wac.inventory,
             realized_pl_details |-> wac.realized_pl_details,
             raised |-> FALSE]

\* the engine without the raised flag
WACState(r) ==
    [inventory |-> r.inventory, realized_pl_details |-> r.realized_pl_details]

----------------------------------------------------------------------------
(* State: the two engines held by Analytics, the store, the checkpoints *)

VARIABLES
    fifo_inventory,          \* Analytics.fifo_inventory: [inventory, realized_pl_details]
    wac_inventory,           \* Analytics.wac_inventory: [inventory, realized_pl_details]
    transactions,            \* table transactions, in insertion order
    next_id,                 \* the next AUTOINCREMENT id of table transactions
    inventory_state,         \* table inventory_state: ledger -> last_transaction_id
    positions,               \* table positions: (ledger, code) -> account -> quantity
    position_avg_cost,       \* table positions, column avg_cost (0: no row), in
                             \* 1/10000 of the currency unit per share
    _last_processed_ids,     \* Analytics._last_processed_ids: ledger -> id
    _initial_load_complete,  \* Analytics._initial_load_complete (class level)
    currencies,              \* table currencies: code -> exchange_rate
    exchange_rate_history,   \* table exchange_rate_history of the foreign
                             \* currency: date -> rate
    capital_by_date,         \* capital flow of each day of the date range, from
                             \* fund_transactions (0: no record on that day)
    assets_by_date,          \* [account_balance, position_value] of each day
    return_rate,             \* table return_rate of the ledger
    rounding_diff,           \* table rounding_diff of the ledger
    threads,                 \* the calls in progress: where each one is and
                             \* what it holds in its local variables
    last,                    \* history: the operation that produced this state
    hist                     \* history: counters and sets used by the properties

vars == <<fifo_inventory, wac_inventory, transactions, next_id, inventory_state,
          positions, position_avg_cost, _last_processed_ids,
          _initial_load_complete,
          currencies, exchange_rate_history, capital_by_date, assets_by_date,
          return_rate, rounding_diff, threads, last, hist>>

RateVars == <<currencies, exchange_rate_history>>

NavVars == <<capital_by_date, assets_by_date, return_rate, rounding_diff>>

\* no row in exchange_rate_history on or before a date
NoRate == 0

ForeignCurrency == "USD"

\* DEFAULT_EXCHANGE_RATES, in units of 1/RateOne
DEFAULT_EXCHANGE_RATES == [c \in {"CNY", ForeignCurrency} |->
                             IF c = "CNY" THEN RateOne ELSE 72500]

\* Analytics.get_exchange_rate(currency): the rate configured now
get_exchange_rate(currency) == currencies[currency]

\* Analytics.get_latest_rate_before_date(currency_code, target_date)
get_latest_rate_before_date(currency_code, target_date) ==
    IF currency_code = "CNY" THEN RateOne
    ELSE LET known == {d \in DOMAIN exchange_rate_history :
                          d <= target_date /\ exchange_rate_history[d] # NoRate}
         IN IF known = {} THEN NoRate
            ELSE exchange_rate_history[CHOOSE d \in known : \A e \in known : e <= d]

\* no row in inventory_state / no entry in _last_processed_ids
NoEntry == -1

NoRow == [id |-> 0, ledger_id |-> 0, account |-> "", date |-> 0, type |-> "",
          code |-> "", quantity |-> 0, amount |-> 0, currency |-> ""]

\* the row handed to the engines: update_position and the rebuild query build
\* the same columns (buys +quantity/-amount, everything else -quantity/+amount)
\* and both read the rate column from the rate configured now
InventoryRow(t) ==
    [id |-> t.id, date |-> t.date, code |-> t.code,
     quantity |-> IF t.type = "buy" THEN t.quantity ELSE -t.quantity,
     book_value |-> IF t.type = "buy" THEN -t.amount ELSE t.amount,
     account |-> t.account, ledger_id |-> t.ledger_id,
     currency |-> t.currency, exchange_rate |-> get_exchange_rate(t.currency)]

\* _prepare_transaction_df on one row of the rebuild query: a foreign row
\* takes the latest recorded rate on or before its date when there is one
PreparedRow(t) ==
    LET hist_rate == get_latest_rate_before_date(t.currency, t.date)
    IN IF t.currency # "CNY" /\ hist_rate # NoRate
       THEN [InventoryRow(t) EXCEPT !.exchange_rate = hist_rate]
       ELSE InventoryRow(t)

\* the lots of one account under a key, in list order
AccountLots(fifo, key, account) ==
    SelectSeq(fifo.inventory[key], LAMBDA r : r.account = account)

\* FIFOInventory.get_total_quantity(ledger_id, code, account)
FIFO_get_total_quantity(fifo, key, account) ==
    SumQuantity(AccountLots(fifo, key, account))

\* WACInventory.get_total_quantity(code, account) under one key
WAC_get_total_quantity(wac, key, account) == wac.inventory[key][account].quantity

\* no row in positions: quantity 0 stands for the missing row
NoPositions == [k \in Keys |-> [a \in Accounts |-> 0]]

NoTrace == [kind |-> "none", c |-> NoEntry, rows |-> <<>>]

NoLast ==
    [op |-> "init", row |-> NoRow, again |-> FALSE, raised |-> FALSE,
     lots_before |-> <<>>, wac_before |-> NoBalance,
     c |-> NoEntry, path |-> "none", committed |-> FALSE,
     rebuilt |-> [l \in Ledgers |-> NoTrace], after_full |-> {},
     batch |-> <<>>, from_date |-> 0]

NoHist ==
    [adds |-> 0, maint |-> 0, fails |-> 0, edits |-> 0,
     since_clear |-> {}, distinct |-> TRUE,
     net |-> [k \in Codes \X Accounts |-> 0],
     applied |-> [l \in Ledgers |-> {}],
     failed |-> [l \in Ledgers |-> FALSE],
     only_adds |-> TRUE]

\* no call in progress. start and overlapped are history: the instance and
\* the table when the first of the two calls began, and whether a step of one
\* call was taken while the other was under way
NoThreads ==
    [rebuild |-> [pc |-> "idle", i |-> 1, df |-> <<>>],
     add |-> [pc |-> "idle", t |-> NoRow, last_processed |-> NoEntry],
     start |-> [fifo |-> EmptyFIFO, wac |-> EmptyWAC,
                lp |-> [l \in Ledgers |-> NoEntry],
                saved |-> [l \in Ledgers |-> NoEntry], table |-> <<>>],
     overlapped |-> FALSE]

\* a process started on a database without transactions: the first load
\* found nothing to replay and left checkpoint 0 for every ledger
Init ==
    /\ fifo_inventory = EmptyFIFO
    /\ wac_inventory = EmptyWAC
    /\ transactions = <<>>
    /\ next_id = 1
    /\ inventory_state = [l \in Ledgers |-> NoEntry]
    /\ positions = NoPositions
    /\ position_avg_cost = NoPositions
    /\ _last_processed_ids = [l \in Ledgers |-> 0]
    /\ _initial_load_complete = TRUE
    /\ currencies = DEFAULT_EXCHANGE_RATES
    /\ exchange_rate_history = [d \in Dates |-> NoRate]
    /\ capital_by_date = <<>>
    /\ assets_by_date = <<>>
    /\ return_rate = {}
    /\ rounding_diff = {}
    /\ threads = NoThreads
    /\ last = NoLast
    /\ hist = NoHist

----------------------------------------------------------------------------
(* The engines driven directly: the same stream fed to both of them *)

EngineAccounts == {"a1", "a2"}

\* every buy or sell a caller can hand to the engines under the next id
NewRows(accounts, types) ==
    { [id |-> next_id, ledger_id |-> AccountLedger[a], account |-> a, date |-> d,
       type |-> ty, code |-> k, quantity |-> q, amount |-> m, currency |-> cur] :
      a \in accounts, d \in Dates, ty \in types, k \in Codes, q \in Qtys,
      m \in Amounts, cur \in Currencies }

\* both engines process one row; a raise of the WAC engine leaves it untouched
EngineStep(t) ==
    \E w \in {WAC_process_single_transaction(wac_inventory, InventoryRow(t))},
       f \in {FIFO_process_single_transaction(fifo_inventory, InventoryRow(t))} :
    LET row == InventoryRow(t)
        key == _make_key(row.ledger_id, row.code)
        again == t.id \in hist.since_clear
    IN /\ fifo_inventory' = FIFOState(f)
       /\ wac_inventory' = WACState(w)
       /\ last' = [NoLast EXCEPT !.op = "process", !.row = t, !.again = again,
                                 !.raised = w.raised \/ f.raised,
                                 !.lots_before = AccountLots(fifo_inventory, key, t.account),
                                 !.wac_before = wac_inventory.inventory[key][t.account]]
       /\ hist' = [hist EXCEPT
                     !.adds = @ + 1,
                     !.since_clear = @ \cup {t.id},
                     !.distinct = @ /\ ~again,
                     !.net[<<t.code, t.account>>] = @ + row.quantity]

\* process() of a transaction under a fresh id
Process ==
    /\ hist.adds < MaxTx
    /\ \E t \in NewRows(EngineAccounts, {"buy", "sell"}) :
          /\ EngineStep(t)
          /\ transactions' = Append(transactions, t)
    /\ next_id' = next_id + 1
    /\ UNCHANGED <<RateVars, NavVars, threads, inventory_state, positions, position_avg_cost, _last_processed_ids, _initial_load_complete>>

\* process() called again with a transaction handed over before
Reprocess ==
    /\ hist.adds < MaxTx
    /\ \E i \in 1..Len(transactions) : EngineStep(transactions[i])
    /\ UNCHANGED <<RateVars, NavVars, threads, transactions, next_id, inventory_state, positions, position_avg_cost,
                   _last_processed_ids, _initial_load_complete>>

\* clear_inventory() of both engines
ClearInventory ==
    /\ hist.since_clear # {}
    /\ fifo_inventory' = EmptyFIFO
    /\ wac_inventory' = EmptyWAC
    /\ last' = [NoLast EXCEPT !.op = "clear"]
    /\ hist' = [hist EXCEPT !.since_clear = {}, !.distinct = TRUE,
                            !.net = NoHist.net]
    /\ UNCHANGED <<RateVars, NavVars, threads, transactions, next_id, inventory_state, positions, position_avg_cost,
                   _last_processed_ids, _initial_load_complete>>

NextEngine == Process \/ Reprocess \/ ClearInventory

SpecEngine == Init /\ [][NextEngine]_vars

----------------------------------------------------------------------------
(* Properties of the engines *)

LastKey == _make_key(last.row.ledger_id, last.row.code)
LastIs(type) == last.op = "process" /\ last.row.type = type

\* the duplicate check skipped the last row: a lot of its id was still listed
LastSkipped ==
    \E i \in 1..Len(last.lots_before) : last.lots_before[i].batch_id = last.row.id

HeldBeforeFIFO == SumQuantity(last.lots_before)
HeldBeforeWAC == last.wac_before.quantity
LotsAfter == AccountLots(fifo_inventory, LastKey, last.row.account)
BalanceAfter == wac_inventory.inventory[LastKey][last.row.account]

\* the account held short lots only before the last row
ShortOnlyBefore ==
    /\ last.lots_before # <<>>
    /\ \A i \in 1..Len(last.lots_before) : last.lots_before[i].quantity < 0

\* C2: in the FIFO engine the lot quantities of every (ledger, security,
\* account) sum to the signed quantities processed for it under distinct ids
\* since the last clear_inventory, short covers with spare quantity included.
C2_LotSumEqualsNet ==
    hist.distinct =>
        \A k \in Keys, a \in Accounts :
            AccountLedger[a] = k[1] =>
                FIFO_get_total_quantity(fifo_inventory, k, a) = hist.net[<<k[2], a>>]

C4_EnginesAgreeOnQuantity ==
    hist.distinct =>
        \A k \in Keys, a \in Accounts :
            FIFO_get_total_quantity(fifo_inventory, k, a)
                = WAC_get_total_quantity(wac_inventory, k, a)

\* C5: in both engines a buy of exactly q on an account that is short q
\* completes without error and leaves no lot or balance of nonzero quantity.
C5_ExactCoverLeavesNothing ==
    LastIs("buy") =>
        /\ (~LastSkipped /\ ShortOnlyBefore /\ HeldBeforeFIFO = -last.row.quantity) =>
               \A i \in 1..Len(LotsAfter) : LotsAfter[i].quantity = 0
        /\ HeldBeforeWAC = -last.row.quantity =>
               ~last.raised /\ BalanceAfter.quantity = 0

\* C6: a FIFO buy of q on an account holding only short lots that total s < q
\* removes all the short lots and adds exactly one long lot of q - s.
C6_CoverWithSpareOpensLong ==
    (LastIs("buy") /\ ~LastSkipped /\ ShortOnlyBefore
        /\ -HeldBeforeFIFO < last.row.quantity) =>
        /\ Len(LotsAfter) = 1
        /\ LotsAfter[1].quantity = last.row.quantity + HeldBeforeFIFO
        /\ LotsAfter[1].batch_id = last.row.id

\* C7: process() of an (id, account) already processed since the last clear
\* leaves the FIFO lots and realized P&L events unchanged, whatever became of
\* the first processing (lot held, lot sold out, sell covered, short opened).
C7_ReprocessChangesNothing ==
    [][(last'.op = "process" /\ last'.again) => fifo_inventory' = fifo_inventory]_vars

----------------------------------------------------------------------------
(* The FIFO engine on one account that never sells more than it holds *)

LongAccount == "a1"
LongKey == _make_key(AccountLedger[LongAccount], "A")

\* the buys, and the sells the account's lots cover, under the next id
LongRows ==
    { [id |-> next_id, ledger_id |-> AccountLedger[LongAccount],
       account |-> LongAccount, date |-> d, type |-> ty, code |-> "A",
       quantity |-> q, amount |-> m, currency |-> cur] :
      d \in Dates, ty \in {"buy", "sell"}, q \in LongQtys, m \in Amounts,
      cur \in Currencies }

\* FIFOInventory._process_single_transaction of a new row
LongProcess ==
    /\ hist.adds < MaxLongTx
    /\ \E t \in LongRows :
          /\ t.type = "sell" =>
                t.quantity <= FIFO_get_total_quantity(fifo_inventory, LongKey,
                                                      LongAccount)
          /\ \E f \in {FIFO_process_single_transaction(fifo_inventory,
                                                        InventoryRow(t))} :
                /\ fifo_inventory' = FIFOState(f)
                /\ last' = [NoLast EXCEPT
                              !.op = "process", !.row = t, !.raised = f.raised,
                              !.lots_before =
                                  AccountLots(fifo_inventory, LongKey, LongAccount)]
          /\ transactions' = Append(transactions, t)
          /\ hist' = [hist EXCEPT
                        !.adds = @ + 1,
                        !.since_clear = @ \cup {t.id},
                        !.net[<<t.code, t.account>>] =
                            @ + InventoryRow(t).quantity]
    /\ next_id' = next_id + 1
    /\ UNCHANGED <<RateVars, NavVars, threads, wac_inventory, inventory_state, positions, position_avg_cost,
                   _last_processed_ids, _initial_load_complete>>

NextLong == LongProcess

SpecLong == Init /\ [][NextLong]_vars

\* the realized events that consumed the lot of buy id
EventsOf(id) ==
    SelectSeq(fifo_inventory.realized_pl_details, LAMBDA p : p.inventory_id = id)

\* the lot of buy id has been sold completely
SoldOut(id) ==
    \A i \in 1..Len(fifo_inventory.inventory[LongKey]) :
        fifo_inventory.inventory[LongKey][i].batch_id # id

\* C14: while no sell exceeds what the account holds, the FIFO lots sum to
\* the net signed quantity, and for every buy whose lot has been sold
\* completely the costs of the realized events that consumed it sum to the
\* buy's book value to the cent.
C14_LongOnlyCostExact ==
    /\ FIFO_get_total_quantity(fifo_inventory, LongKey, LongAccount)
           = hist.net[<<"A", LongAccount>>]
    /\ \A i \in 1..Len(transactions) :
          (transactions[i].type = "buy" /\ SoldOut(transactions[i].id)) =>
              SumCost(EventsOf(transactions[i].id)) = transactions[i].amount

\* a lot of 3 sold out in three sales whose costs are not all equal
C14_WitnessRoundedCosts ==
    \E i \in 1..Len(transactions) :
        /\ transactions[i].type = "buy" /\ SoldOut(transactions[i].id)
        /\ Len(EventsOf(transactions[i].id)) = 3
        /\ \E j, k \in 1..3 :
              EventsOf(transactions[i].id)[j].cost # EventsOf(transactions[i].id)[k].cost

----------------------------------------------------------------------------
(* Analytics: rebuilds, checkpoints and the position table (analytics.py) *)

\* the part of Analytics and of the open database transaction that a call
\* threads through: engines, checkpoints, inventory_state as written so far
Memory(fifo, wac, lp, saved, applied) ==
    [fifo |-> fifo, wac |-> wac, lp |-> lp, saved |-> saved, applied |-> applied,
     raised |-> FALSE, committed |-> FALSE,
     rebuilt |-> [l \in Ledgers |-> NoTrace]]

\* get_ledgers(): SELECT * FROM ledgers ORDER BY id
LedgerOrder ==
    CHOOSE s \in [1..Cardinality(Ledgers) -> Ledgers] :
        \A i, j \in 1..Cardinality(Ledgers) : i < j => s[i] < s[j]

RECURSIVE RowsOf(_)
RowsOf(table) ==
    IF table = <<>> THEN <<>> ELSE <<PreparedRow(Head(table))>> \o RowsOf(Tail(table))

\* the rebuild query: the ledger's buys and sells, id > last_id when
\* last_id > 0, ORDER BY date, id (the table is kept in id order)
LedgerRows(table, ledger_id, last_id) ==
    RowsOf(SortByDate(SelectSeq(table,
        LAMBDA t : /\ t.type \in {"buy", "sell"}
                   /\ t.ledger_id = ledger_id
                   /\ (last_id > 0 => t.id > last_id))))

\* variant: the checkpoint a replay leaves is not the largest replayed id
NoMaxId(rows) == 0

RECURSIVE MaxId(_)
MaxId(rows) ==
    IF rows = <<>> THEN 0
    ELSE IF Head(rows).id > MaxId(Tail(rows)) THEN Head(rows).id ELSE MaxId(Tail(rows))

\* rows a replay newly applies to the FIFO engine (duplicates are skipped)
FIFOApplied(fifo, row) ==
    IF AlreadyProcessed(fifo, row) \/ row.quantity = 0 THEN {} ELSE {row}

\* FIFOInventory.add_stock_from_df: per (ledger, code) group, sorted by date
\* (frames this small are sorted stably); the group's key is inserted before
\* its rows; stops at the first row that raises -> [fifo, applied, raised]
RECURSIVE FIFO_add_stock_from_df(_, _, _)
FIFO_add_stock_from_df(fifo, rows, applied) ==
    IF rows = <<>> THEN [fifo |-> fifo, applied |-> applied, raised |-> FALSE]
    ELSE CHOOSE r \in {
             IF next.raised
             THEN [fifo |-> FIFOState(next), applied |-> applied, raised |-> TRUE]
             ELSE FIFO_add_stock_from_df(FIFOState(next), Tail(rows),
                      applied \cup FIFOApplied(fifo, Head(rows))) :
             next \in {FIFO_process_single_transaction(
                          [fifo EXCEPT !.keys =
                               InsertKey(@, _make_key(Head(rows).ledger_id,
                                                      Head(rows).code))],
                          Head(rows))} } : TRUE

\* the groups of a frame in key order, each sorted by date
RECURSIVE GroupedRows(_, _)
GroupedRows(rows, i) ==
    IF i > Len(KeyOrder) THEN <<>>
    ELSE SortByDate(SelectSeq(rows,
             LAMBDA r : _make_key(r.ledger_id, r.code) = KeyOrder[i]))
         \o GroupedRows(rows, i + 1)

\* WACInventory.add_stock_from_df: sorted by (date, id), stops at the first
\* row that raises -> [wac, applied, raised]
RECURSIVE WAC_add_stock_from_df(_, _, _)
WAC_add_stock_from_df(wac, rows, applied) ==
    IF rows = <<>> THEN [wac |-> wac, applied |-> applied, raised |-> FALSE]
    ELSE CHOOSE r \in {
             IF w.raised
             THEN [wac |-> wac, applied |-> applied, raised |-> TRUE]
             ELSE WAC_add_stock_from_df(WACState(w), Tail(rows),
                      applied \cup (IF Head(rows).quantity = 0 THEN {} ELSE {Head(rows)})) :
             w \in {WAC_process_single_transaction(wac, Head(rows))} } : TRUE

\* _rebuild_ledger_inventory(ledger_id, force_full); the engines are not cleared
\* replayed: the engines after the ledger's add_stock_from_df
\* -> [fifo, wac, applied, raised]
_rebuild_ledger_inventory(m, table, ledger_id, force_full) ==
    LET loaded == IF m.lp[ledger_id] = NoEntry THEN 0 ELSE m.lp[ledger_id]
        full == force_full \/ loaded = 0
        last_id == IF full THEN 0 ELSE loaded
        lp == IF full THEN [m.lp EXCEPT ![ledger_id] = 0] ELSE m.lp
    IN CHOOSE result \in {
         LET trace == [kind |-> IF full THEN "full" ELSE "incr", c |-> last_id,
                       rows |-> rows]
             done == [m EXCEPT !.lp = [lp EXCEPT ![ledger_id] = MaxId(rows)],
                               !.saved[ledger_id] = MaxId(rows),
                               !.committed = TRUE,
                               !.rebuilt[ledger_id] = trace]
         IN IF rows = <<>> THEN [m EXCEPT !.lp = lp, !.rebuilt[ledger_id] = trace]
            ELSE CHOOSE after \in {
                   IF replayed.raised
                   THEN [m EXCEPT !.lp = lp, !.fifo = replayed.fifo,
                                  !.wac = replayed.wac,
                                  !.applied[ledger_id] = replayed.applied,
                                  !.raised = TRUE,
                                  !.rebuilt[ledger_id] = [trace EXCEPT !.kind = "failed"]]
                   ELSE [done EXCEPT !.fifo = replayed.fifo,
                                     !.wac = replayed.wac,
                                     !.applied[ledger_id] = replayed.applied] :
                   replayed \in
                       IF CostMethod[ledger_id] = "FIFO"
                       THEN { [fifo |-> r.fifo, wac |-> m.wac,
                               applied |-> r.applied, raised |-> r.raised] :
                              r \in {FIFO_add_stock_from_df(m.fifo, GroupedRows(rows, 1),
                                                            m.applied[ledger_id])} }
                       ELSE { [fifo |-> m.fifo, wac |-> r.wac,
                               applied |-> r.applied, raised |-> r.raised] :
                              r \in {WAC_add_stock_from_df(m.wac, rows,
                                                           m.applied[ledger_id])} } } :
                 TRUE :
         rows \in {LedgerRows(table, ledger_id, last_id)} } : TRUE

RECURSIVE RebuildLedgers(_, _, _, _)
RebuildLedgers(m, table, force_full, i) ==
    IF i > Len(LedgerOrder) \/ m.raised THEN m
    ELSE CHOOSE r \in { RebuildLedgers(next, table, force_full, i + 1) :
                        next \in {_rebuild_ledger_inventory(m, table, LedgerOrder[i],
                                                            force_full)} } : TRUE

\* variant: a forced rebuild that resets the checkpoints and keeps the engines
RebuildAllKeepingEngines(m, table, force_full, initial_load_complete) ==
    IF initial_load_complete /\ ~force_full THEN m
    ELSE RebuildLedgers(
             IF force_full
             THEN [m EXCEPT !.lp = [l \in Ledgers |-> NoEntry]]
             ELSE m,
             table, force_full, 1)

\* _rebuild_all_inventory(force_full)
_rebuild_all_inventory(m, table, force_full, initial_load_complete) ==
    IF initial_load_complete /\ ~force_full THEN m
    ELSE RebuildLedgers(
             IF force_full
             THEN [m EXCEPT !.fifo = EmptyFIFO, !.wac = EmptyWAC,
                            !.lp = [l \in Ledgers |-> NoEntry],
                            !.applied = [l \in Ledgers |-> {}]]
             ELSE m,
             table, force_full, 1)

\* the quantity the ledger's own engine reports for (key, account)
InventoryQuantity(m, key, account) ==
    IF CostMethod[key[1]] = "FIFO"
    THEN FIFO_get_total_quantity(m.fifo, key, account)
    ELSE WAC_get_total_quantity(m.wac, key, account)

\* variant: an account that is short gets no row
PositionQuantityLongOnly(quantity) == IF quantity <= EPS THEN 0 ELSE quantity

\* the row a position sync leaves: none when |quantity| <= 0.0001
PositionQuantity(quantity) == IF Abs(quantity) <= EPS THEN 0 ELSE quantity

\* _sync_position_from_inventory(transaction, account_name)
_sync_position_from_inventory(pos, m, t) ==
    LET key == _make_key(t.ledger_id, t.code)
    IN [pos EXCEPT ![key][t.account] =
            PositionQuantity(InventoryQuantity(m, key, t.account))]

\* the book value the ledger's own engine reports for (key, account): the
\* lots' book values, or the balance's total_cost
InventoryBookValue(m, key, account) ==
    IF CostMethod[key[1]] = "FIFO"
    THEN SumBookValue(AccountLots(m.fifo, key, account))
    ELSE IF HasBalance(m.wac, key, account)
         THEN m.wac.inventory[key][account].total_cost
         ELSE 0

\* abs(total_cost / total_quantity) of a written row, kept to 4 decimals
AvgCost(total_cost, total_quantity) ==
    RoundDiv(Abs(total_cost) * 100 * QtyPerShare, Abs(total_quantity))

\* column avg_cost of the row a position sync leaves
PositionAvgCost(m, key, account) ==
    IF PositionQuantity(InventoryQuantity(m, key, account)) = 0 THEN 0
    ELSE AvgCost(InventoryBookValue(m, key, account),
                 InventoryQuantity(m, key, account))

\* _sync_position_from_inventory, column avg_cost
SyncAvgCost(avg, m, t) ==
    [avg EXCEPT ![_make_key(t.ledger_id, t.code)][t.account] =
         PositionAvgCost(m, _make_key(t.ledger_id, t.code), t.account)]

\* rebuild_all_positions, column avg_cost
AllAvgCosts(m) ==
    [k \in Keys |-> [a \in Accounts |->
        IF AccountLedger[a] = k[1] THEN PositionAvgCost(m, k, a) ELSE 0]]

\* update_position(transaction, transaction_id), before the position sync
\* -> the memory after, with the branch taken and the checkpoint it compared
update_position(m, table, t) ==
    CHOOSE result \in {
    LET ledger_id == t.ledger_id
        row == InventoryRow(t)
        lp == IF m.lp[ledger_id] # NoEntry THEN m.lp
              ELSE [m.lp EXCEPT ![ledger_id] =
                        IF m.saved[ledger_id] = NoEntry THEN 0 ELSE m.saved[ledger_id]]
        last_processed == lp[ledger_id]
        m1 == [m EXCEPT !.lp = lp]
        fast == [m1 EXCEPT
                   !.fifo = FIFOState(f),
                   !.applied[ledger_id] =
                       IF CostMethod[ledger_id] = "FIFO"
                       THEN @ \cup FIFOApplied(m.fifo, row)
                       ELSE @]
        advanced == [fast EXCEPT
                       !.wac = WACState(w),
                       !.applied[ledger_id] =
                           IF CostMethod[ledger_id] = "WAC" /\ row.quantity # 0
                           THEN @ \cup {row} ELSE @,
                       !.lp[ledger_id] =
                           IF t.id > last_processed THEN t.id ELSE @,
                       !.saved[ledger_id] =
                           IF t.id > last_processed THEN t.id ELSE @]
    IN IF last_processed < t.id - 1
       THEN [m |-> _rebuild_ledger_inventory(m1, table, ledger_id, TRUE),
             path |-> "rebuild", c |-> last_processed]
       ELSE [m |-> IF f.raised
                   THEN [m1 EXCEPT !.fifo = FIFOState(f), !.raised = TRUE]
                   ELSE IF w.raised THEN [fast EXCEPT !.raised = TRUE]
                   ELSE advanced,
             path |-> "fast", c |-> last_processed] :
    f \in {FIFO_process_single_transaction(m.fifo, InventoryRow(t))},
    w \in {WAC_process_single_transaction(m.wac, InventoryRow(t))} } : TRUE

\* rebuild_all_positions after its forced rebuild: one row per account of the
\* ledger whose |quantity| > 0.0001, every other row deleted
AllPositions(m) ==
    [k \in Keys |-> [a \in Accounts |->
        IF AccountLedger[a] = k[1]
        THEN PositionQuantity(InventoryQuantity(m, k, a))
        ELSE 0]]

----------------------------------------------------------------------------
(* The application: add_transaction, process start, explicit rebuilds *)

LedgerAccounts == {"a1", "b1"}

\* a dividend carries an amount and no quantity
Dividends ==
    { [id |-> next_id, ledger_id |-> AccountLedger[a], account |-> a, date |-> d,
       type |-> "dividend", code |-> k, quantity |-> 0, amount |-> m,
       currency |-> cur] :
      a \in LedgerAccounts, d \in Dates, k \in Codes, m \in Amounts,
      cur \in Currencies }

\* history: the ledgers whose latest replay raised part-way
FailedAfter(failed, rebuilt) ==
    [l \in Ledgers |->
        IF rebuilt[l].kind = "failed" THEN TRUE
        ELSE IF rebuilt[l].kind = "none" THEN failed[l]
        ELSE FALSE]

Current == Memory(fifo_inventory, wac_inventory, _last_processed_ids,
                  inventory_state, hist.applied)

\* what every operation does to the instance: the engines and checkpoints
\* stay as the call left them, whatever the database keeps
Remember(m) ==
    /\ fifo_inventory' = m.fifo
    /\ wac_inventory' = m.wac
    /\ _last_processed_ids' = m.lp

\* crud_transactions.add_transaction: INSERT, update_position, commit; an
\* exception rolls back whatever is not committed yet and returns False.
\* store_error: the final commit fails.
Submit(t, store_error) ==
    \E u \in {update_position(Current, Append(transactions, t), t)} :
    LET table == Append(transactions, t)
        m == u.m
        kept == IF m.raised \/ store_error THEN m.committed ELSE TRUE
    IN /\ Remember(m)
       /\ transactions' = IF kept THEN table ELSE transactions
       /\ next_id' = IF kept THEN next_id + 1 ELSE next_id
       /\ inventory_state' = IF kept THEN m.saved ELSE inventory_state
       /\ positions' = IF m.raised \/ store_error THEN positions
                       ELSE _sync_position_from_inventory(positions, m, t)
       /\ position_avg_cost' = IF m.raised \/ store_error THEN position_avg_cost
                               ELSE SyncAvgCost(position_avg_cost, m, t)
       /\ UNCHANGED <<RateVars, NavVars, threads, _initial_load_complete>>
       /\ last' = [NoLast EXCEPT !.op = "add", !.row = t, !.c = u.c,
                                 !.path = u.path, !.raised = m.raised,
                                 !.committed = kept, !.rebuilt = m.rebuilt]
       /\ hist' = [hist EXCEPT
                     !.adds = @ + 1,
                     !.fails = IF store_error THEN @ + 1 ELSE @,
                     !.applied = m.applied,
                     !.failed = FailedAfter(@, m.rebuilt),
                     !.only_adds = @ /\ ~m.raised /\ ~store_error]

AddTransaction ==
    /\ hist.adds < MaxTx
    /\ \E t \in NewRows(LedgerAccounts, {"buy", "sell"}) \cup Dividends :
          Submit(t, FALSE)

AddTransactionStoreError ==
    /\ hist.adds < MaxTx
    /\ hist.fails < MaxFail
    /\ \E t \in NewRows(LedgerAccounts, {"buy", "sell"}) \cup Dividends :
          Submit(t, TRUE)

\* a new process: Analytics.__init__ and _init_inventory_managers on the
\* committed database; a failed load leaves fresh engines and the flag unset
Restart ==
    /\ hist.maint < MaxMaint
    /\ \E m \in {_rebuild_all_inventory(
                     Memory(EmptyFIFO, EmptyWAC, inventory_state, inventory_state,
                            [l \in Ledgers |-> {}]),
                     transactions, FALSE, FALSE)} :
          /\ fifo_inventory' = IF m.raised THEN EmptyFIFO ELSE m.fifo
          /\ wac_inventory' = IF m.raised THEN EmptyWAC ELSE m.wac
          /\ _last_processed_ids' = m.lp
          /\ _initial_load_complete' = ~m.raised
          /\ inventory_state' = m.saved
          /\ last' = [NoLast EXCEPT !.op = "restart", !.raised = m.raised,
                                    !.rebuilt = m.rebuilt]
          /\ hist' = [hist EXCEPT !.maint = @ + 1,
                                  !.applied = IF m.raised
                                              THEN [l \in Ledgers |-> {}]
                                              ELSE m.applied,
                                  !.failed = FailedAfter(@, m.rebuilt),
                                  !.only_adds = FALSE]
    /\ UNCHANGED <<RateVars, NavVars, threads, transactions, next_id, positions, position_avg_cost>>

\* Database._rebuild_all_inventory(): the non-forced rebuild of a running process
RebuildAllInventory ==
    /\ hist.maint < MaxMaint
    /\ \E m \in {_rebuild_all_inventory(Current, transactions, FALSE,
                                        _initial_load_complete)} :
          /\ Remember(m)
          /\ inventory_state' = m.saved
          /\ last' = [NoLast EXCEPT !.op = "rebuild_inventory", !.raised = m.raised,
                                    !.rebuilt = m.rebuilt]
          /\ hist' = [hist EXCEPT !.maint = @ + 1, !.applied = m.applied,
                                  !.failed = FailedAfter(@, m.rebuilt),
                                  !.only_adds = FALSE]
    /\ UNCHANGED <<RateVars, NavVars, threads, transactions, next_id, positions, position_avg_cost, _initial_load_complete>>

\* rebuild_all_positions: forced rebuild of everything, then the position
\* table is rewritten from the engines; an exception rolls back and is raised
RebuildAllPositions ==
    /\ hist.maint < MaxMaint
    /\ \E m \in {_rebuild_all_inventory(Current, transactions, TRUE,
                                        _initial_load_complete)} :
          /\ Remember(m)
          /\ inventory_state' = m.saved
          /\ positions' = IF m.raised THEN positions ELSE AllPositions(m)
          /\ position_avg_cost' = IF m.raised THEN position_avg_cost
                                  ELSE AllAvgCosts(m)
          /\ last' = [NoLast EXCEPT !.op = "rebuild_positions", !.raised = m.raised,
                                    !.rebuilt = m.rebuilt]
          /\ hist' = [hist EXCEPT !.maint = @ + 1, !.applied = m.applied,
                                  !.failed = FailedAfter(@, m.rebuilt),
                                  !.only_adds = FALSE]
    /\ UNCHANGED <<RateVars, NavVars, threads, transactions, next_id, _initial_load_complete>>

Next ==
    \/ AddTransaction
    \/ AddTransactionStoreError
    \/ Restart
    \/ RebuildAllInventory
    \/ RebuildAllPositions

Spec == Init /\ [][Next]_vars

----------------------------------------------------------------------------
(* Properties of the rebuild controller *)

LedgerKeys(ledger_id) == {k \in Keys : k[1] = ledger_id}

\* what the engine of the ledger's cost method holds for the ledger: its
\* lots or balances and its realized P&L events
LedgerState(fifo, wac, ledger_id) ==
    IF CostMethod[ledger_id] = "FIFO"
    THEN [inventory |-> [k \in LedgerKeys(ledger_id) |-> fifo.inventory[k]],
          realized_pl_details |->
              SelectSeq(fifo.realized_pl_details,
                        LAMBDA p : AccountLedger[p.account] = ledger_id)]
    ELSE [inventory |-> [k \in LedgerKeys(ledger_id) |-> wac.inventory[k]],
          realized_pl_details |->
              SelectSeq(wac.realized_pl_details,
                        LAMBDA p : p.ledger_id = ledger_id)]

\* the ledger's stored buys and sells replayed in (date, id) order into
\* empty engines -> [fifo, wac, raised]
Replay(ledger_id) ==
    LET rows == LedgerRows(transactions, ledger_id, 0)
        w == WAC_add_stock_from_df(EmptyWAC, rows, {})
        f == FIFO_add_stock_from_df(EmptyFIFO, GroupedRows(rows, 1), {})
    IN [fifo |-> f.fifo, wac |-> w.wac,
        raised |-> IF CostMethod[ledger_id] = "FIFO" THEN f.raised ELSE w.raised]

EqualsReplay(ledger_id) ==
    /\ ~Replay(ledger_id).raised
    /\ LedgerState(fifo_inventory, wac_inventory, ledger_id)
          = LedgerState(Replay(ledger_id).fifo, Replay(ledger_id).wac, ledger_id)

\* the stored transactions were submitted in date order
Chronological ==
    \A i, j \in 1..Len(transactions) :
        i < j => transactions[i].date <= transactions[j].date

\* C1: after successful add_transaction calls only, over several ledgers and
\* with dividends taking ids from the same counter, the engine state of every
\* ledger equals the replay of that ledger's stored buys and sells from an
\* empty engine (stated for submissions in date order, where arrival order
\* and (date, id) order agree).
C1_EngineEqualsReplay ==
    (hist.only_adds /\ Chronological) => \A l \in Ledgers : EqualsReplay(l)

\* C8: a per-ledger rebuild that is forced or finds no checkpoint replays all
\* of the ledger's transactions and leaves the ledger's engine state as if it
\* had been discarded first; a non-forced rebuild with checkpoint c > 0
\* replays only the transactions with id > c.
C8_RebuildDiscardsThenReplays ==
    \A l \in Ledgers :
        /\ last.rebuilt[l].kind = "full" =>
              /\ last.rebuilt[l].rows = LedgerRows(transactions, l, 0)
              /\ EqualsReplay(l)
        /\ last.rebuilt[l].kind = "incr" =>
              /\ last.rebuilt[l].c > 0
              /\ last.rebuilt[l].rows = LedgerRows(transactions, l, last.rebuilt[l].c)

\* C9: update_position for id t on a ledger with checkpoint c takes the fast
\* path exactly when c = t - 1, and then the checkpoint becomes t (unless an
\* engine raised); for every other c, c >= t included, the ledger is rebuilt.
C9_FastPathOnlyWhenContiguous ==
    last.op = "add" =>
        /\ last.c = last.row.id - 1 =>
              /\ last.path = "fast"
              /\ ~last.raised => _last_processed_ids[last.row.ledger_id] = last.row.id
        /\ last.c # last.row.id - 1 => last.path = "rebuild"

\* the stored buys and sells of a ledger up to id c
StoredUpTo(ledger_id, c) ==
    { InventoryRow(transactions[i]) : i \in
        { j \in 1..Len(transactions) :
            /\ transactions[j].type \in {"buy", "sell"}
            /\ transactions[j].ledger_id = ledger_id
            /\ transactions[j].id <= c } }

\* C10: whenever a ledger's in-memory checkpoint is c > 0 (after startup and
\* after every completed operation), every stored buy or sell of the ledger
\* with id <= c has been applied to the ledger's engine since the engine was
\* created or last cleared.
C10_CheckpointCoversEngine ==
    \A l \in Ledgers :
        _last_processed_ids[l] > 0 =>
            StoredUpTo(l, _last_processed_ids[l]) \subseteq hist.applied[l]

----------------------------------------------------------------------------
(* Editing the store: update_transaction and delete_transaction *)

\* the buys and sells added while editing
EditRows == {t \in NewRows(LedgerAccounts, {"buy", "sell"}) : t.date = 1}

\* the versions an update can turn a stored row into: one field changed
Edited(t) ==
    { [t EXCEPT !.quantity = q] : q \in Qtys \ {t.quantity} }
    \cup { [t EXCEPT !.type = ty] : ty \in {"buy", "sell"} \ {t.type} }
    \cup { [t EXCEPT !.date = d] : d \in Dates \ {t.date} }
    \cup { [t EXCEPT !.account = a, !.ledger_id = AccountLedger[a]] :
             a \in LedgerAccounts \ {t.account} }

\* the table without its i-th row
DeleteRow(table, i) ==
    [j \in 1..(Len(table) - 1) |-> IF j < i THEN table[j] ELSE table[j + 1]]

\* what update_transaction and delete_transaction share: the change is
\* committed, then rebuild_all_positions runs the forced rebuild of every
\* ledger and rewrites the positions; a raise there makes the call return False
EditStore(op, old, table) ==
    \E m \in {_rebuild_all_inventory(Current, table, TRUE, _initial_load_complete)} :
       /\ Remember(m)
       /\ transactions' = table
       /\ inventory_state' = m.saved
       /\ positions' = IF m.raised THEN positions ELSE AllPositions(m)
       /\ position_avg_cost' = IF m.raised THEN position_avg_cost
                               ELSE AllAvgCosts(m)
       /\ last' = [NoLast EXCEPT
                     !.op = op, !.row = old, !.raised = m.raised,
                     !.rebuilt = m.rebuilt,
                     !.lots_before =
                         AccountLots(fifo_inventory,
                                     _make_key(old.ledger_id, old.code), old.account),
                     !.wac_before =
                         wac_inventory.inventory[_make_key(old.ledger_id, old.code)]
                                                [old.account]]
       /\ hist' = [hist EXCEPT !.edits = @ + 1, !.applied = m.applied,
                               !.failed = FailedAfter(@, m.rebuilt),
                               !.only_adds = FALSE]
       /\ UNCHANGED <<RateVars, NavVars, threads, next_id, _initial_load_complete>>

\* add_transaction while editing
EditAdd ==
    /\ hist.adds < MaxEditTx
    /\ \E t \in EditRows : Submit(t, FALSE)

\* crud_transactions.delete_transaction(transaction_id)
DeleteTransaction ==
    /\ hist.edits < MaxEdits
    /\ \E i \in 1..Len(transactions) :
          EditStore("delete", transactions[i], DeleteRow(transactions, i))

\* crud_transactions.update_transaction(transaction_id, transaction)
UpdateTransaction ==
    /\ hist.edits < MaxEdits
    /\ \E i \in 1..Len(transactions) : \E t \in Edited(transactions[i]) :
          EditStore("update", transactions[i], [transactions EXCEPT ![i] = t])

NextEdit ==
    \/ EditAdd
    \/ DeleteTransaction
    \/ UpdateTransaction

SpecEdit == Init /\ [][NextEdit]_vars

----------------------------------------------------------------------------
(* Rebuilding twice: a forced rebuild followed by a non-forced one *)

\* _incremental_update_inventory(): the non-forced rebuild of every ledger
IncrementalUpdateInventory ==
    /\ hist.maint < MaxMaint
    /\ \E m \in {RebuildLedgers(Current, transactions, FALSE, 1)} :
          /\ Remember(m)
          /\ inventory_state' = m.saved
          /\ last' = [NoLast EXCEPT
                        !.op = "incremental", !.raised = m.raised,
                        !.rebuilt = m.rebuilt,
                        !.after_full =
                            {l \in Ledgers : last.rebuilt[l].kind = "full"}]
          /\ hist' = [hist EXCEPT !.maint = @ + 1, !.applied = m.applied,
                                  !.failed = FailedAfter(@, m.rebuilt),
                                  !.only_adds = FALSE]
    /\ UNCHANGED <<RateVars, NavVars, threads, transactions, next_id, positions, position_avg_cost, _initial_load_complete>>

NextRebuild ==
    \/ EditAdd
    \/ RebuildAllPositions
    \/ IncrementalUpdateInventory

SpecRebuild == Init /\ [][NextRebuild]_vars

\* C13: a non-forced rebuild that directly follows a completed forced full
\* rebuild of the ledger, over the same stored transactions, leaves the
\* ledger's lots or balances, its realized events and both its checkpoints
\* as the full rebuild left them.
C13_RebuildIdempotent ==
    [][\A l \in Ledgers :
          (/\ last.rebuilt[l].kind = "full"
           /\ last'.op = "incremental"
           /\ last'.rebuilt[l].kind # "none") =>
              /\ LedgerState(fifo_inventory', wac_inventory', l)
                     = LedgerState(fifo_inventory, wac_inventory, l)
              /\ _last_processed_ids'[l] = _last_processed_ids[l]
              /\ inventory_state'[l] = inventory_state[l]]_vars

\* a non-forced rebuild ran right after a full rebuild of a ledger that has
\* stored transactions and holds something in its engine
C13_WitnessSecondRebuild ==
    /\ last.op = "incremental" /\ ~last.raised
    /\ \E l \in last.after_full :
          /\ LedgerRows(transactions, l, 0) # <<>>
          /\ last.rebuilt[l].kind = "incr"
          /\ LedgerState(fifo_inventory, wac_inventory, l)
                 # LedgerState(EmptyFIFO, EmptyWAC, l)

\* a replay of ledger l raised in this step
ReplayFailed(l) == last'.rebuilt[l].kind = "failed"

\* this step rebuilt ledger l to the end, and the ledger's previous replay
\* had raised part-way
RetryAfterFailure(l) ==
    hist.failed[l] /\ last'.rebuilt[l].kind \in {"full", "incr"}

\* C11: a replay that raises part-way leaves the ledger's persisted
\* checkpoint as it was and does not set the in-memory checkpoint to a
\* replayed id; the next rebuild of the ledger that runs to the end is a full
\* rebuild and ends in the state of a replay of the ledger's stored
\* transactions into an empty engine.
C11_FailedReplayRetriedInFull ==
    [][\A l \in Ledgers :
          /\ ReplayFailed(l) =>
                /\ inventory_state'[l] = inventory_state[l]
                /\ _last_processed_ids'[l] \in {0, _last_processed_ids[l],
                                                 inventory_state[l]}
          /\ RetryAfterFailure(l) =>
                /\ last'.rebuilt[l].kind = "full"
                /\ EqualsReplay(l)']_vars

----------------------------------------------------------------------------
(* Exchange rates: the rate configured now and the recorded history *)

Rates == {70000, 72500}

\* buys and sells in the foreign currency, under the next id
RateRows ==
    { [id |-> next_id, ledger_id |-> AccountLedger[a], account |-> a, date |-> d,
       type |-> ty, code |-> "A", quantity |-> q, amount |-> m,
       currency |-> ForeignCurrency] :
      a \in {LongAccount}, d \in Dates, ty \in {"buy", "sell"}, q \in Qtys,
      m \in Amounts }

\* add_transaction of a transaction in the foreign currency
RateAdd ==
    /\ hist.adds < MaxRateTx
    /\ \E t \in RateRows : Submit(t, FALSE)

ForeignRows == SelectSeq(transactions, LAMBDA t : t.currency # "CNY")

\* update_exchange_rate(code, rate) of the foreign currency while no recorded
\* rate applies to a stored transaction: recalculate_transaction_rates finds
\* no rate, rewrites nothing and starts no rebuild
UpdateExchangeRate ==
    /\ \A i \in 1..Len(ForeignRows) :
          get_latest_rate_before_date(ForeignRows[i].currency, ForeignRows[i].date)
             = NoRate
    /\ \E rate \in Rates :
          /\ rate # currencies[ForeignCurrency]
          /\ currencies' = [currencies EXCEPT ![ForeignCurrency] = rate]
    /\ last' = [NoLast EXCEPT !.op = "update_rate"]
    /\ UNCHANGED <<fifo_inventory, wac_inventory, transactions, next_id,
                   inventory_state, positions, position_avg_cost, _last_processed_ids,
                   _initial_load_complete, exchange_rate_history, NavVars,
                   threads, hist>>

\* backfill_prices_for_dates: INSERT OR IGNORE of a rate of the foreign
\* currency into exchange_rate_history
BackfillRate ==
    /\ \E d \in Dates, rate \in Rates :
          /\ exchange_rate_history[d] = NoRate
          /\ exchange_rate_history' = [exchange_rate_history EXCEPT ![d] = rate]
    /\ last' = [NoLast EXCEPT !.op = "backfill"]
    /\ UNCHANGED <<fifo_inventory, wac_inventory, transactions, next_id,
                   inventory_state, positions, position_avg_cost, _last_processed_ids,
                   _initial_load_complete, currencies, NavVars, threads, hist>>

NextRates ==
    \/ RateAdd
    \/ UpdateExchangeRate
    \/ BackfillRate
    \/ Restart
    \/ RebuildAllPositions

SpecRates == Init /\ [][NextRates]_vars

Range(s) == {s[i] : i \in DOMAIN s}

\* the acquisition rate of every FIFO lot, by batch and account
LotRates ==
    UNION { { <<b.batch_id, b.account, b.exchange_rate>> :
              b \in Range(fifo_inventory.inventory[k]) } : k \in Keys }

\* the sale rate and the cost rate of every realized event of an engine
EventRates(details) ==
    { <<p.transaction_id, p.inventory_id, p.exchange_rate, p.cost_exchange_rate>> :
      p \in Range(details) }

\* C15: the recorded rates do not depend on the rate configured when the
\* engine is built: a step that leaves the stored transactions as they were
\* (a change of the configured rate, a restart, a rebuild) leaves every lot
\* that is still open with its acquisition rate and every realized event
\* with its sale rate and cost rate.
C15_RatesIndependentOfCurrentRate ==
    [][transactions' = transactions =>
          /\ \A x \in LotRates, y \in LotRates' :
                (x[1] = y[1] /\ x[2] = y[2]) => x[3] = y[3]
          /\ \A x \in EventRates(fifo_inventory.realized_pl_details),
                y \in EventRates(fifo_inventory.realized_pl_details)' :
                (x[1] = y[1] /\ x[2] = y[2]) => (x[3] = y[3] /\ x[4] = y[4])]_vars

----------------------------------------------------------------------------
(* Batch replay of a frame with rows that cannot be parsed *)

\* a row of the frame without one of its columns
Without(row, column) == [c \in DOMAIN row \ {column} |-> row[c]]

\* the rows a frame can hold at position i: buys and sells of one account,
\* whole or without their quantity or amount
FrameRows(i) ==
    LET whole == { InventoryRow(
                     [id |-> next_id + i - 1,
                      ledger_id |-> AccountLedger[LongAccount],
                      account |-> LongAccount, date |-> d, type |-> ty,
                      code |-> "A", quantity |-> q, amount |-> m,
                      currency |-> cur]) :
                   d \in Dates, ty \in {"buy", "sell"}, q \in Qtys,
                   m \in Amounts, cur \in Currencies }
    IN whole \cup { Without(r, "quantity") : r \in whole }
             \cup { Without(r, "book_value") : r \in whole }

Frames == { <<r1, r2>> : r1 \in FrameRows(1), r2 \in FrameRows(2) }

\* add_stock_from_df(df) of both engines on the same frame; an exception
\* leaves each engine as it was when the row raised
AddStockFromDf ==
    /\ hist.adds < MaxFrames
    /\ \E df \in Frames :
          \E f \in {FIFO_add_stock_from_df(fifo_inventory, GroupedRows(df, 1), {})},
             w \in {WAC_add_stock_from_df(wac_inventory, SortByDate(df), {})} :
             /\ fifo_inventory' = f.fifo
             /\ wac_inventory' = w.wac
             /\ last' = [NoLast EXCEPT !.op = "batch", !.batch = df,
                                       !.raised = f.raised \/ w.raised]
             /\ next_id' = next_id + Len(df)
    /\ hist' = [hist EXCEPT !.adds = @ + 1]
    /\ UNCHANGED <<RateVars, NavVars, threads, transactions, inventory_state, positions, position_avg_cost,
                   _last_processed_ids, _initial_load_complete>>

NextBatch == AddStockFromDf

SpecBatch == Init /\ [][NextBatch]_vars

\* the rows of a frame that can be parsed
ParsedRows(df) == SelectSeq(df, LAMBDA r : Parses(r))

\* C16: a batch replay does not abort on a row that cannot be parsed: it
\* returns normally and leaves each engine as the replay of the frame's
\* remaining rows leaves it.
C16_MalformedRowSkipped ==
    [][last'.op = "batch" =>
          /\ ~last'.raised
          /\ fifo_inventory' =
                FIFO_add_stock_from_df(fifo_inventory,
                    GroupedRows(ParsedRows(last'.batch), 1), {}).fifo
          /\ wac_inventory' =
                WAC_add_stock_from_df(wac_inventory,
                    SortByDate(ParsedRows(last'.batch)), {}).wac]_vars

----------------------------------------------------------------------------
(* rebuild_all_positions and add_transaction running side by side *)

\* buys of the two ledgers' accounts, under the next id
ConcurrentRows == NewRows(LedgerAccounts, {"buy"})

\* add_transaction while no other call is in progress
Prepare ==
    /\ threads.rebuild.pc = "idle" /\ threads.add.pc = "idle"
    /\ hist.adds < MaxPrior
    /\ \E t \in ConcurrentRows : Submit(t, FALSE)

Busy(pc) == pc \notin {"idle", "done"}

\* variant: every new transaction is taken for a gap
GapAlways(last_processed, transaction_id) == last_processed <= transaction_id

\* update_position: the ledger's replay is behind the new transaction
GapBefore(last_processed, transaction_id) == last_processed < transaction_id - 1

\* history of a step of one call while the other is at other_pc
Marked(th, other_pc) ==
    [th EXCEPT
        !.overlapped = @ \/ Busy(other_pc),
        !.start = IF threads.rebuild.pc = "idle" /\ threads.add.pc = "idle"
                  THEN [fifo |-> fifo_inventory, wac |-> wac_inventory,
                        lp |-> _last_processed_ids, saved |-> inventory_state,
                        table |-> transactions]
                  ELSE @]

RebuildStep(th) ==
    /\ threads' = Marked(th, threads.add.pc)
    /\ last' = [NoLast EXCEPT !.op = "rebuild_step"]
    /\ UNCHANGED <<RateVars, NavVars, _initial_load_complete, hist>>

AddStep(th) ==
    /\ threads' = Marked(th, threads.rebuild.pc)
    /\ last' = [NoLast EXCEPT !.op = "add_step"]
    /\ UNCHANGED <<RateVars, NavVars, _initial_load_complete, hist>>

\* the ledger the rebuild is at, and where it goes after that ledger
RebuildLedger == LedgerOrder[threads.rebuild.i]

AfterLedger ==
    IF threads.rebuild.i < Len(LedgerOrder)
    THEN [threads EXCEPT !.rebuild.pc = "reset", !.rebuild.i = @ + 1,
                         !.rebuild.df = <<>>]
    ELSE [threads EXCEPT !.rebuild.pc = "sync", !.rebuild.df = <<>>]

\* _rebuild_all_inventory(force_full=True): both engines and the checkpoints
\* are cleared
RebuildClear ==
    /\ threads.rebuild.pc = "idle"
    /\ fifo_inventory' = EmptyFIFO
    /\ wac_inventory' = EmptyWAC
    /\ _last_processed_ids' = [l \in Ledgers |-> NoEntry]
    /\ RebuildStep([threads EXCEPT !.rebuild.pc = "reset", !.rebuild.i = 1])
    /\ UNCHANGED <<transactions, next_id, inventory_state, positions, position_avg_cost>>

\* _rebuild_ledger_inventory(ledger_id, True): the checkpoint is reset
RebuildReset ==
    /\ threads.rebuild.pc = "reset"
    /\ _last_processed_ids' = [_last_processed_ids EXCEPT ![RebuildLedger] = 0]
    /\ RebuildStep([threads EXCEPT !.rebuild.pc = "query"])
    /\ UNCHANGED <<fifo_inventory, wac_inventory, transactions, next_id,
                   inventory_state, positions, position_avg_cost>>

\* the rebuild query is read into the frame
RebuildQuery ==
    /\ threads.rebuild.pc = "query"
    /\ \E df \in {LedgerRows(transactions, RebuildLedger, 0)} :
          RebuildStep(IF df = <<>> THEN AfterLedger
                      ELSE [threads EXCEPT !.rebuild.pc = "replay",
                                           !.rebuild.df = df])
    /\ UNCHANGED <<fifo_inventory, wac_inventory, transactions, next_id,
                   inventory_state, positions, position_avg_cost, _last_processed_ids>>

\* add_stock_from_df(df) of the ledger's engine
RebuildReplay ==
    /\ threads.rebuild.pc = "replay"
    /\ IF CostMethod[RebuildLedger] = "FIFO"
       THEN \E r \in {FIFO_add_stock_from_df(fifo_inventory,
                           GroupedRows(threads.rebuild.df, 1), {})} :
               /\ fifo_inventory' = r.fifo
               /\ wac_inventory' = wac_inventory
               /\ RebuildStep([threads EXCEPT !.rebuild.pc =
                                  IF r.raised THEN "done" ELSE "checkpoint"])
       ELSE \E r \in {WAC_add_stock_from_df(wac_inventory,
                           threads.rebuild.df, {})} :
               /\ wac_inventory' = r.wac
               /\ fifo_inventory' = fifo_inventory
               /\ RebuildStep([threads EXCEPT !.rebuild.pc =
                                  IF r.raised THEN "done" ELSE "checkpoint"])
    /\ UNCHANGED <<transactions, next_id, inventory_state, positions, position_avg_cost,
                   _last_processed_ids>>

\* the checkpoint is set to the frame's largest id and saved
RebuildCheckpoint ==
    /\ threads.rebuild.pc = "checkpoint"
    /\ _last_processed_ids' = [_last_processed_ids EXCEPT ![RebuildLedger] =
                                  MaxId(threads.rebuild.df)]
    /\ inventory_state' = [inventory_state EXCEPT ![RebuildLedger] =
                              MaxId(threads.rebuild.df)]
    /\ RebuildStep(AfterLedger)
    /\ UNCHANGED <<fifo_inventory, wac_inventory, transactions, next_id, positions, position_avg_cost>>

\* rebuild_all_positions writes the position rows from the engines
RebuildSync ==
    /\ threads.rebuild.pc = "sync"
    /\ positions' = AllPositions(Current)
    /\ position_avg_cost' = AllAvgCosts(Current)
    /\ RebuildStep([threads EXCEPT !.rebuild.pc = "done"])
    /\ UNCHANGED <<fifo_inventory, wac_inventory, transactions, next_id,
                   inventory_state, _last_processed_ids>>

AddLedger == threads.add.t.ledger_id

\* add_transaction: the INSERT
AddInsert ==
    /\ threads.add.pc = "idle"
    /\ \E t \in ConcurrentRows :
          /\ transactions' = Append(transactions, t)
          /\ AddStep([threads EXCEPT !.add.pc = "check", !.add.t = t])
    /\ next_id' = next_id + 1
    /\ UNCHANGED <<fifo_inventory, wac_inventory, inventory_state, positions, position_avg_cost,
                   _last_processed_ids>>

\* update_position: the checkpoint is loaded when missing, read and compared
AddCheck ==
    /\ threads.add.pc = "check"
    /\ \E lp \in {IF _last_processed_ids[AddLedger] # NoEntry
                   THEN _last_processed_ids
                   ELSE [_last_processed_ids EXCEPT ![AddLedger] =
                            IF inventory_state[AddLedger] = NoEntry THEN 0
                            ELSE inventory_state[AddLedger]]} :
          /\ _last_processed_ids' = lp
          /\ AddStep([threads EXCEPT
                         !.add.last_processed = lp[AddLedger],
                         !.add.pc = IF GapBefore(lp[AddLedger], threads.add.t.id)
                                    THEN "gap" ELSE "process"])
    /\ UNCHANGED <<fifo_inventory, wac_inventory, transactions, next_id,
                   inventory_state, positions, position_avg_cost>>

\* update_position: _rebuild_ledger_inventory(ledger_id, force_full=True)
AddGapRebuild ==
    /\ threads.add.pc = "gap"
    /\ \E m \in {_rebuild_ledger_inventory(Current, transactions, AddLedger, TRUE)} :
          /\ Remember(m)
          /\ inventory_state' = m.saved
          /\ AddStep([threads EXCEPT !.add.pc = IF m.raised THEN "done" ELSE "sync"])
    /\ UNCHANGED <<transactions, next_id, positions, position_avg_cost>>

\* update_position: both engines process the new row
AddProcess ==
    /\ threads.add.pc = "process"
    /\ \E f \in {FIFO_process_single_transaction(fifo_inventory,
                                                   InventoryRow(threads.add.t))},
          w \in {WAC_process_single_transaction(wac_inventory,
                                                  InventoryRow(threads.add.t))} :
          /\ fifo_inventory' = FIFOState(f)
          /\ wac_inventory' = IF f.raised \/ w.raised THEN wac_inventory
                              ELSE WACState(w)
          /\ AddStep([threads EXCEPT !.add.pc =
                         IF f.raised \/ w.raised THEN "done" ELSE "advance"])
    /\ UNCHANGED <<transactions, next_id, inventory_state, positions, position_avg_cost,
                   _last_processed_ids>>

\* update_position: the checkpoint moves to the new id and is saved
AddAdvance ==
    /\ threads.add.pc = "advance"
    /\ IF threads.add.t.id > threads.add.last_processed
       THEN /\ _last_processed_ids' =
                  [_last_processed_ids EXCEPT ![AddLedger] = threads.add.t.id]
            /\ inventory_state' =
                  [inventory_state EXCEPT ![AddLedger] = threads.add.t.id]
       ELSE UNCHANGED <<_last_processed_ids, inventory_state>>
    /\ AddStep([threads EXCEPT !.add.pc = "sync"])
    /\ UNCHANGED <<fifo_inventory, wac_inventory, transactions, next_id, positions, position_avg_cost>>

\* update_position: _sync_position_from_inventory, then the commit
AddSync ==
    /\ threads.add.pc = "sync"
    /\ positions' = _sync_position_from_inventory(positions, Current, threads.add.t)
    /\ position_avg_cost' = SyncAvgCost(position_avg_cost, Current, threads.add.t)
    /\ AddStep([threads EXCEPT !.add.pc = "done"])
    /\ UNCHANGED <<fifo_inventory, wac_inventory, transactions, next_id,
                   inventory_state, _last_processed_ids>>

NextThreads ==
    \/ Prepare
    \/ RebuildClear
    \/ RebuildReset
    \/ RebuildQuery
    \/ RebuildReplay
    \/ RebuildCheckpoint
    \/ RebuildSync
    \/ AddInsert
    \/ AddCheck
    \/ AddGapRebuild
    \/ AddProcess
    \/ AddAdvance
    \/ AddSync

SpecThreads == Init /\ [][NextThreads]_vars

BothDone == threads.rebuild.pc = "done" /\ threads.add.pc = "done"

StartMemory ==
    Memory(threads.start.fifo, threads.start.wac, threads.start.lp,
           threads.start.saved, [l \in Ledgers |-> {}])

StoredAfterAdd == Append(threads.start.table, threads.add.t)

\* the two serial orders of the calls, from where the first one began
AddThenRebuild ==
    _rebuild_all_inventory(update_position(StartMemory, StoredAfterAdd,
                                           threads.add.t).m,
                           StoredAfterAdd, TRUE, TRUE)

RebuildThenAdd ==
    update_position(_rebuild_all_inventory(StartMemory, threads.start.table,
                                           TRUE, TRUE),
                    StoredAfterAdd, threads.add.t).m

Outcome(m) == <<m.fifo, m.wac, m.lp, m.saved>>

Final == <<fifo_inventory, wac_inventory, _last_processed_ids, inventory_state>>

----------------------------------------------------------------------------
(* The NAV-based return rate calculator (return_rate_sqlite.py)            *)
(*                                                                         *)
(* Amounts of money are integers in units of 10^-MoneyDecimals, units      *)
(* (shares) in units of 10^-SHARE_DECIMAL_PLACES, unit prices in units of  *)
(* 10^-NAV_DECIMAL_PLACES and the daily return in hundredths of a percent. *)
(* A Python float keeps FloatDigits significant decimal digits here: the   *)
(* double of the program keeps about 16, and the amounts of the model are  *)
(* shorter than the program's by the same measure.  The days of the date   *)
(* range are numbered from 1, the day of the first capital record.         *)

SHARE_DECIMAL_PLACES == 4

NAV_DECIMAL_PLACES == 6

MoneyDecimals == 5

FloatDigits == 8

RECURSIVE Pow10(_)
Pow10(k) == IF k = 0 THEN 1 ELSE 10 * Pow10(k - 1)

RECURSIVE Digits(_)
Digits(x) == IF x < 10 THEN 1 ELSE 1 + Digits(x \div 10)

\* float(x): the nearest value of FloatDigits significant digits, ties to even
float(x) ==
    LET a == Abs(x)
        n == Digits(a)
    IN IF n <= FloatDigits THEN x
       ELSE LET p == Pow10(n - FloatDigits)
                q == a \div p
                r == a % p
                up == IF 2 * r > p \/ (2 * r = p /\ q % 2 = 1) THEN 1 ELSE 0
                v == (q + up) * p
            IN IF x < 0 THEN -v ELSE v

\* Decimal(str(x)) of a float read back from a REAL column: the shortest
\* decimal that names the float, which is the float itself
DecimalOfStr(x) == x

\* long division: k more decimal digits of the quotient q with remainder r
RECURSIVE LongDiv(_, _, _, _)
LongDiv(q, r, d, k) ==
    IF k = 0 THEN [q |-> q, r |-> r]
    ELSE LongDiv(10 * q + (10 * r) \div d, (10 * r) % d, d, k - 1)

\* (n / d).quantize(10^-k, rounding=ROUND_HALF_UP) in units of 10^-k, with
\* the remainder that the quantization leaves (0: the quotient was exact);
\* rest = (n / d - value) * d in units of 10^-k
Quantize(n, d, k) ==
    LET an == Abs(n)
        ad == Abs(d)
        sign == IF (n < 0) = (d < 0) THEN 1 ELSE -1
    IN CHOOSE x \in
          { [value |-> sign * (IF 2 * s.r >= ad THEN s.q + 1 ELSE s.q),
             exact |-> s.r = 0,
             rest |-> (IF n < 0 THEN -1 ELSE 1)
                        * (IF 2 * s.r >= ad THEN s.r - ad ELSE s.r)] :
            s \in {LongDiv(an \div ad, an % ad, ad, k)} } : TRUE

\* initial_nav = Decimal('1')
initial_nav == Pow10(NAV_DECIMAL_PLACES)

\* raw_shares = capital_amount / nav, quantized to SHARE_DECIMAL_PLACES
ConfirmShares(capital_amount, nav) ==
    Quantize(capital_amount, nav,
             SHARE_DECIMAL_PLACES + NAV_DECIMAL_PLACES - MoneyDecimals)

\* nav = (total_assets - capital_amount) / prev_total_shares, quantized to
\* NAV_DECIMAL_PLACES
UnitPrice(amount, prev_total_shares) ==
    Quantize(amount, prev_total_shares,
             NAV_DECIMAL_PLACES + SHARE_DECIMAL_PLACES - MoneyDecimals).value

\* f"{float(daily_return) * 100:.2f}%" of daily_return = (nav - prev_nav) /
\* prev_nav, in hundredths of a percent
DailyReturnPct(nav, prev_nav) ==
    IF prev_nav > 0 THEN Quantize(nav - prev_nav, prev_nav, 4).value ELSE 0

\* prev_total_assets is None or <<amount>>
None == <<>>

\* the local variables of calculate_return_rate before the first day
NavStart ==
    [total_shares |-> 0, prev_nav |-> initial_nav, prev_total_assets |-> None,
     results |-> <<>>, rounding_diffs |-> <<>>, raised |-> FALSE]

\* variant: a row is appended on every day that confirms units
RoundingDiffAlways(date, capital_amount, confirmed, nav) ==
    << [date |-> date, capital_amount |-> float(capital_amount),
        confirmed_shares |-> float(confirmed.value),
        rounding_amount |-> float(confirmed.rest),
        confirm_nav |-> float(nav)] >>

\* the row appended to rounding_diffs when raw_shares # confirmed_shares;
\* rounding_amount = share_diff * nav; its floats raw_shares and share_diff
\* are functions of the capital flow and the unit price kept here
RoundingDiff(date, capital_amount, confirmed, nav) ==
    IF confirmed.exact THEN <<>>
    ELSE << [date |-> date, capital_amount |-> float(capital_amount),
             confirmed_shares |-> float(confirmed.value),
             rounding_amount |-> float(confirmed.rest),
             confirm_nav |-> float(nav)] >>

\* the first subscription: units are confirmed at initial_nav
FirstEntry(st, date, capital_amount, total_assets) ==
         LET nav == initial_nav
         IN CHOOSE next \in {
            [st EXCEPT
               !.total_shares = confirmed.value,
               !.rounding_diffs = @ \o RoundingDiff(date, capital_amount, confirmed, nav),
               !.results = Append(@,
                   [date |-> date,
                    capital_amount |-> float(capital_amount),
                    confirmed_shares |-> float(confirmed.value),
                    confirm_nav |-> float(nav),
                    total_shares |-> float(confirmed.value),
                    nav |-> float(nav),
                    total_assets |-> float(total_assets),
                    daily_pnl |-> 0,
                    daily_return_pct |-> 0,
                    cumulative_return |-> 0]),
               !.prev_nav = nav,
               !.prev_total_assets = <<total_assets>>] :
            confirmed \in {ConfirmShares(capital_amount, nav)} } : TRUE

\* the same body without the `continue` of a day that has no capital flow
FirstDayWithoutSkip(st, date, capital_amount, total_assets) ==
    FirstEntry(st, date, capital_amount, total_assets)

\* the body of the loop when total_shares = 0: a day without a capital flow
\* is passed over
FirstDay(st, date, capital_amount, total_assets) ==
    IF capital_amount = 0 THEN st
    ELSE FirstEntry(st, date, capital_amount, total_assets)

\* the body of the loop when total_shares # 0, from the unit price on
LaterDayAt(st, date, capital_amount, total_assets, nav) ==
    LET daily_return_pct == DailyReturnPct(nav, st.prev_nav)
        cumulative_return == nav - initial_nav
        daily_pnl == IF st.prev_total_assets # None
                     THEN total_assets - st.prev_total_assets[1] - capital_amount
                     ELSE 0
    IN IF capital_amount # 0 /\ nav = 0
       THEN [st EXCEPT !.raised = TRUE]        \* decimal.DivisionByZero
       ELSE CHOOSE next \in {
            [st EXCEPT
               !.total_shares = @ + confirmed.value,
               !.rounding_diffs = @ \o RoundingDiff(date, capital_amount, confirmed, nav),
               !.results = Append(@,
                   [date |-> date,
                    capital_amount |-> float(capital_amount),
                    confirmed_shares |-> float(confirmed.value),
                    confirm_nav |-> float(nav),
                    total_shares |-> float(st.total_shares + confirmed.value),
                    nav |-> float(nav),
                    total_assets |-> float(total_assets),
                    daily_pnl |-> float(daily_pnl),
                    daily_return_pct |-> daily_return_pct,
                    cumulative_return |-> float(cumulative_return)]),
               !.prev_nav = nav,
               !.prev_total_assets = <<total_assets>>] :
            confirmed \in {IF capital_amount # 0
                           THEN ConfirmShares(capital_amount, nav)
                           ELSE [value |-> 0, exact |-> TRUE, rest |-> 0]} } : TRUE

\* the body of the loop when total_shares # 0
LaterDay(st, date, capital_amount, total_assets) ==
    CHOOSE next \in
        { LaterDayAt(st, date, capital_amount, total_assets, nav) :
          nav \in {UnitPrice(total_assets - capital_amount, st.total_shares)} } :
        TRUE

\* balance_by_date.get(current_date_key, 0): a day without a snapshot row
\* has no such column in its record
GetOrZero(assets, column) ==
    IF column \in DOMAIN assets THEN assets[column] ELSE 0

\* total_assets = account_balance + position_value + exchange_pl_amount
TotalAssets(assets) ==
    GetOrZero(assets, "account_balance") + GetOrZero(assets, "position_value")

\* for current_date in date_range, from day `date` to the end of the range
RECURSIVE NavLoop(_, _, _, _)
NavLoop(st, date, capital, assets) ==
    IF date > Len(capital) \/ st.raised THEN st
    ELSE CHOOSE r \in
            { NavLoop(next, date + 1, capital, assets) : next \in
                { IF st.total_shares = 0
                  THEN FirstDay(st, date, capital[date], TotalAssets(assets[date]))
                  ELSE LaterDay(st, date, capital[date], TotalAssets(assets[date])) } } :
            TRUE

\* the row of table `stored` for a date, as a set of at most one row
PrevRow(stored, date) == {r \in stored : r.date = date}

\* calculate_return_rate(conn, ledger_id, ledger_name, incremental_from_date)
\* over the inputs and the stored table; incremental_from_date = 0 is None
calculate_return_rate(capital, assets, stored, incremental_from_date) ==
    IF capital = <<>> THEN NavStart
    ELSE IF incremental_from_date # 0
            /\ PrevRow(stored, incremental_from_date - 1) # {}
         THEN LET row == CHOOSE r \in PrevRow(stored, incremental_from_date - 1) : TRUE
              IN NavLoop([NavStart EXCEPT
                            !.total_shares = DecimalOfStr(row.total_shares),
                            !.prev_nav = DecimalOfStr(row.nav),
                            !.prev_total_assets = <<DecimalOfStr(row.total_assets)>>],
                         incremental_from_date, capital, assets)
         ELSE NavLoop(NavStart, 1, capital, assets)

\* the full-history computation
FullSeries(capital, assets) == calculate_return_rate(capital, assets, {}, 0)

\* INSERT OR REPLACE of the rows of a frame into a table keyed by date
InsertOrReplace(table, frame) ==
    {r \in table : \A i \in DOMAIN frame : frame[i].date # r.date}
        \cup {frame[i] : i \in DOMAIN frame}

\* the inputs of one day: flows of 0, 1000, -1050 and 0.00004; balances of
\* 0 and 1050 with position values of 0 and 0.49543
Flows == {0, 100000000, -105000000, 4}

NetAssets ==
    {[account_balance |-> 0, position_value |-> 0],
     [account_balance |-> 105000000, position_value |-> 0],
     [account_balance |-> 105000000, position_value |-> 49543]}

\* n / d is below 10^k
Below(n, d, k) == Abs(n) \div Abs(d) < Pow10(k)

\* The inputs stay in the range of the model from day `date` on: units and
\* unit prices stay below 10^FloatDigits of their units (where float is
\* exact on them, as the double of the program is on such amounts) and the
\* daily return below 10^4 percent.
RECURSIVE InRange(_, _, _, _)
InRange(st, date, capital, assets) ==
    IF date > Len(capital) \/ st.raised THEN TRUE
    ELSE LET capital_amount == capital[date]
             total_assets == TotalAssets(assets[date])
             k == FloatDigits - (SHARE_DECIMAL_PLACES + NAV_DECIMAL_PLACES
                                 - MoneyDecimals)
         IN IF st.total_shares = 0
            THEN /\ Below(capital_amount, initial_nav, k)
                 /\ \E next \in {FirstDay(st, date, capital_amount, total_assets)} :
                       InRange(next, date + 1, capital, assets)
            ELSE /\ Below(total_assets - capital_amount, st.total_shares, k)
                 /\ \E nav \in {UnitPrice(total_assets - capital_amount,
                                           st.total_shares)} :
                       /\ st.prev_nav > 0 => Below(nav - st.prev_nav, st.prev_nav, 2)
                       /\ (capital_amount # 0 /\ nav # 0) =>
                             /\ Below(capital_amount, nav, k)
                             /\ Abs(st.total_shares
                                    + ConfirmShares(capital_amount, nav).value)
                                  < Pow10(FloatDigits)
                 /\ \E next \in {LaterDay(st, date, capital_amount, total_assets)} :
                       InRange(next, date + 1, capital, assets)

\* one more day passes: its capital records and its net assets are stored
RecordDay ==
    /\ Len(capital_by_date) < MaxDays
    /\ \E flow \in Flows, assets \in NetAssets :
          /\ InRange(NavStart, 1, Append(capital_by_date, flow),
                     Append(assets_by_date, assets))
          /\ capital_by_date' = Append(capital_by_date, flow)
          /\ assets_by_date' = Append(assets_by_date, assets)
    /\ last' = [NoLast EXCEPT !.op = "record"]
    /\ UNCHANGED <<fifo_inventory, wac_inventory, transactions, next_id,
                   inventory_state, positions, position_avg_cost, _last_processed_ids,
                   _initial_load_complete, RateVars, return_rate, rounding_diff,
                   threads, hist>>

\* generate_return_rate(conn, ledger_id, full_refresh, write_to_db=True,
\* incremental_from_date) for the ledger; an exception of the calculation
\* is caught after the rows were deleted
generate_return_rate(incremental_from_date) ==
    LET kept == IF incremental_from_date # 0
                THEN {r \in return_rate : r.date < incremental_from_date}
                ELSE {}
        kept_diff == IF incremental_from_date # 0
                     THEN {r \in rounding_diff : r.date < incremental_from_date}
                     ELSE {}
    IN \E st \in {calculate_return_rate(capital_by_date, assets_by_date,
                                        kept, incremental_from_date)} :
          /\ return_rate' = IF st.raised THEN kept
                            ELSE InsertOrReplace(kept, st.results)
          /\ rounding_diff' = IF st.raised \/ st.results = <<>> THEN kept_diff
                              ELSE InsertOrReplace(kept_diff, st.rounding_diffs)
          /\ last' = [NoLast EXCEPT !.op = IF incremental_from_date = 0
                                           THEN "full" ELSE "incremental",
                                    !.raised = st.raised,
                                    !.from_date = incremental_from_date]
          /\ UNCHANGED <<fifo_inventory, wac_inventory, transactions, next_id,
                         inventory_state, positions, position_avg_cost, _last_processed_ids,
                         _initial_load_complete, RateVars, capital_by_date,
                         assets_by_date, threads, hist>>

GenerateFull == generate_return_rate(0)

GenerateIncremental ==
    \E d \in 1..(Len(capital_by_date) + 1) : generate_return_rate(d)

\* days recorded and the series computed over the full history
NextFull == RecordDay \/ GenerateFull

SpecFull == Init /\ [][NextFull]_vars

\* the same with recomputations from a start date
NextNav == RecordDay \/ GenerateFull \/ GenerateIncremental

SpecNav == Init /\ [][NextNav]_vars

\* the days of the date range with a nonzero capital flow
FlowDays == {d \in DOMAIN capital_by_date : capital_by_date[d] # 0}

\* the first of them
FirstFlowDay == CHOOSE d \in FlowDays : \A e \in FlowDays : d <= e

\* the table holds the series of a full computation over the inputs
AfterFull == last.op = "full" /\ ~last.raised

\* C18: in a full computation the first entry of the series is the first
\* day with a nonzero capital flow; it has unit price 1, daily return 0,
\* cumulative return 0 and confirmed units equal to the flow rounded to
\* SHARE_DECIMAL_PLACES; the days before it have no entry.
C18_FirstEntryAtFirstFlow ==
    AfterFull =>
        IF FlowDays = {} THEN return_rate = {}
        ELSE /\ \A r \in return_rate : r.date >= FirstFlowDay
             /\ \E r \in return_rate :
                   /\ r.date = FirstFlowDay
                   /\ r.nav = Pow10(NAV_DECIMAL_PLACES)
                   /\ r.daily_return_pct = 0
                   /\ r.cumulative_return = 0
                   /\ r.confirmed_shares =
                         RoundDiv(capital_by_date[FirstFlowDay],
                                  Pow10(MoneyDecimals - SHARE_DECIMAL_PLACES))

\* a full computation whose first day has no flow and whose second day has a
\* flow of 0.00004, confirmed as 0.0000 units
C18_WitnessLaterFirstFlow ==
    /\ AfterFull
    /\ Len(capital_by_date) >= 2
    /\ capital_by_date[1] = 0
    /\ \E r \in return_rate :
          r.date = 2 /\ r.capital_amount = 4 /\ r.confirmed_shares = 0

\* the entry of the series before row r: the stored row of the latest
\* earlier date, as a set of at most one row
PreviousEntry(r) ==
    {p \in return_rate :
        p.date < r.date /\ \A q \in return_rate : q.date < r.date => q.date <= p.date}

\* C19: on every series day after the first, unit price = round((net assets
\* - capital flow) / units outstanding at the end of the previous day,
\* NAV_DECIMAL_PLACES), daily return = unit price / previous unit price - 1
\* and cumulative return = unit price - 1.  Each formula is required
\* wherever its division is defined; the daily return is compared as it is
\* emitted, in hundredths of a percent.
C19_LaterDaysFollowFormula ==
    AfterFull =>
        \A r \in return_rate : \A p \in PreviousEntry(r) :
            /\ p.total_shares # 0 =>
                  r.nav = UnitPrice(TotalAssets(assets_by_date[r.date])
                                        - capital_by_date[r.date],
                                    p.total_shares)
            /\ p.nav # 0 =>
                  r.daily_return_pct = Quantize(r.nav - p.nav, p.nav, 4).value
            /\ r.cumulative_return = r.nav - Pow10(NAV_DECIMAL_PLACES)

\* the example of the claim: a flow of 1000 on day 1 and net assets of 1050
\* without a flow on day 2 give unit price 1.05, daily return 5.00% and
\* cumulative return 0.05
ExampleOfLaterDay ==
    \E st \in {FullSeries(<<100000000, 0>>,
                          <<[account_balance |-> 100000000, position_value |-> 0],
                            [account_balance |-> 105000000, position_value |-> 0]>>)} :
        /\ Len(st.results) = 2
        /\ st.results[2].nav = 1050000
        /\ st.results[2].daily_return_pct = 500
        /\ st.results[2].cumulative_return = 50000

\* the rows of a frame, and the rows of a table from a date on
FrameSet(frame) == {frame[i] : i \in DOMAIN frame}

RowsFrom(table, date) == {r \in table : r.date >= date}

\* what a full-history computation over the inputs yields: entries and
\* rounding-diff events (nothing when it raises)
FullEntries ==
    CHOOSE t \in { IF st.raised THEN {} ELSE FrameSet(st.results) :
                   st \in {FullSeries(capital_by_date, assets_by_date)} } : TRUE

FullEvents ==
    CHOOSE t \in { IF st.raised \/ st.results = <<>> THEN {}
                   ELSE FrameSet(st.rounding_diffs) :
                   st \in {FullSeries(capital_by_date, assets_by_date)} } : TRUE

\* the stored row of a date was produced from the present inputs: it is the
\* entry that the full-history computation makes for that date
ProducedFromInputs(date) ==
    /\ date >= 1
    /\ PrevRow(return_rate, date) # {}
    /\ PrevRow(return_rate, date)
         \subseteq FrameSet(FullSeries(SubSeq(capital_by_date, 1, date),
                                       SubSeq(assets_by_date, 1, date)).results)

\* C20: an incremental computation from D whose previous day has a stored
\* row produced from the same inputs leaves, for every date >= D, exactly
\* the entries and the rounding-diff events of a full-history computation;
\* when the previous day has no stored row it is the full-history
\* computation.
C20_IncrementalEqualsFull ==
    [][last'.op = "incremental" =>
         /\ ProducedFromInputs(last'.from_date - 1) =>
               /\ RowsFrom(return_rate', last'.from_date)
                    = RowsFrom(FullEntries, last'.from_date)
               /\ RowsFrom(rounding_diff', last'.from_date)
                    = RowsFrom(FullEvents, last'.from_date)
         /\ PrevRow(return_rate, last'.from_date - 1) = {} =>
               /\ FullEntries \subseteq return_rate'
               /\ RowsFrom(return_rate', last'.from_date)
                    = RowsFrom(FullEntries, last'.from_date)
               /\ FullEvents \subseteq rounding_diff'
      ]_vars

----------------------------------------------------------------------------
(* Days whose net assets are not available *)

\* what is stored for a day without a row in account_balance_history: no
\* snapshot at all, or the position snapshot alone
WithoutBalance == {<<>>, [position_value |-> 49543]}

\* the net assets of a day are available
Available(assets) == {"account_balance", "position_value"} \subseteq DOMAIN assets

\* one more day passes for which no account balance snapshot was stored
RecordDayWithoutSnapshot ==
    /\ Len(capital_by_date) < MaxDays
    /\ \E flow \in Flows, assets \in WithoutBalance :
          /\ InRange(NavStart, 1, Append(capital_by_date, flow),
                     Append(assets_by_date, assets))
          /\ capital_by_date' = Append(capital_by_date, flow)
          /\ assets_by_date' = Append(assets_by_date, assets)
    /\ last' = [NoLast EXCEPT !.op = "record_without_snapshot"]
    /\ UNCHANGED <<fifo_inventory, wac_inventory, transactions, next_id,
                   inventory_state, positions, position_avg_cost, _last_processed_ids,
                   _initial_load_complete, RateVars, return_rate, rounding_diff,
                   threads, hist>>

NextGaps == RecordDay \/ RecordDayWithoutSnapshot \/ GenerateFull

SpecGaps == Init /\ [][NextGaps]_vars

\* C21: a date for which net assets are unavailable produces no entry in
\* the series; no entry is computed from net assets in which zero stands for
\* the missing part.
C21_UnavailableDayOmitted ==
    AfterFull => \A r \in return_rate : Available(assets_by_date[r.date])

----------------------------------------------------------------------------
(* add_transaction when update_position raises *)

\* the checkpoint a ledger has in memory, read from inventory_state when the
\* instance holds none
CheckpointInMemory(lp, saved, l) ==
    IF lp[l] # NoEntry THEN lp[l]
    ELSE IF saved[l] = NoEntry THEN 0 ELSE saved[l]

\* C22: when update_position raises while a transaction is added, so that
\* add_transaction rolls the store back and returns False, the lots,
\* balances and realized events of both engines and the in-memory
\* checkpoints are what they were before the call.
C22_FailedAddLeavesEngines ==
    [][(last'.op = "add" /\ last'.raised /\ transactions' = transactions) =>
          /\ fifo_inventory' = fifo_inventory
          /\ wac_inventory' = wac_inventory
          /\ \A l \in Ledgers :
                CheckpointInMemory(_last_processed_ids', inventory_state', l)
                  = CheckpointInMemory(_last_processed_ids, inventory_state, l)
      ]_vars

----------------------------------------------------------------------------
(* The FIFO engine on one account that may sell more than it holds *)

\* FIFOInventory._process_single_transaction of a new buy or sell of the
\* account, whatever it holds
OversellProcess ==
    /\ hist.adds < MaxLongTx
    /\ \E t \in LongRows :
          /\ \E f \in {FIFO_process_single_transaction(fifo_inventory,
                                                        InventoryRow(t))} :
                /\ fifo_inventory' = FIFOState(f)
                /\ last' = [NoLast EXCEPT
                              !.op = "process", !.row = t, !.raised = f.raised,
                              !.lots_before =
                                  AccountLots(fifo_inventory, LongKey, LongAccount)]
          /\ transactions' = Append(transactions, t)
          /\ hist' = [hist EXCEPT
                        !.adds = @ + 1,
                        !.since_clear = @ \cup {t.id},
                        !.net[<<t.code, t.account>>] =
                            @ + InventoryRow(t).quantity]
    /\ next_id' = next_id + 1
    /\ UNCHANGED <<RateVars, NavVars, threads, wac_inventory, inventory_state, positions, position_avg_cost,
                   _last_processed_ids, _initial_load_complete>>

NextOversell == OversellProcess

SpecOversell == Init /\ [][NextOversell]_vars

\* the positive lots the account held before the last row
PositiveBefore == SelectSeq(last.lots_before, LAMBDA b : b.quantity > 0)

\* the quantity of the last sale that positive lots covered
ConsumedByLast ==
    IF SumQuantity(PositiveBefore) < last.row.quantity
    THEN SumQuantity(PositiveBefore) ELSE last.row.quantity

\* the realized events of the last row, in the order they were recorded
EventsOfLast ==
    SelectSeq(fifo_inventory.realized_pl_details,
              LAMBDA p : p.transaction_id = last.row.id)

\* the proceeds of the last sale attributed to the consumed quantity
ProceedsOfConsumed ==
    RoundDiv(last.row.amount * ConsumedByLast, last.row.quantity)

\* C23: the realized events of a sale that consumes positive lots carry, all
\* but the last, the income round(consumed quantity of the lot / consumed
\* quantity * proceeds) half-up to the cent, and the last the proceeds minus
\* what was allocated; their incomes sum to the proceeds attributed to the
\* consumed quantity, which are the full proceeds when lots cover the sale.
C23_IncomesSumToProceeds ==
    (LastIs("sell") /\ ~last.raised /\ ConsumedByLast > 0) =>
        /\ EventsOfLast # <<>>
        /\ \A i \in 1..(Len(EventsOfLast) - 1) :
              EventsOfLast[i].income =
                  RoundDiv(EventsOfLast[i].sold_quantity * ProceedsOfConsumed,
                           ConsumedByLast)
        /\ SumIncome(EventsOfLast) = ProceedsOfConsumed
        /\ ConsumedByLast = last.row.quantity =>
              SumIncome(EventsOfLast) = last.row.amount

\* a sale of 3 over three lots of 1: the proportions 3, 3, 3 do not add up to
\* the proceeds and the last event carries the rest
C23_WitnessLastTakesRest ==
    /\ LastIs("sell") /\ ~last.raised
    /\ Len(EventsOfLast) = 3
    /\ EventsOfLast[3].income # EventsOfLast[1].income
    /\ SumIncome(EventsOfLast) = last.row.amount

\* a sale of 3 over two lots of 1 each: the events share the proceeds
\* attributed to the 2 consumed, not the full proceeds
C23_WitnessPartlyCovered ==
    /\ LastIs("sell") /\ ~last.raised
    /\ Len(EventsOfLast) = 2
    /\ ConsumedByLast < last.row.quantity
    /\ SumIncome(EventsOfLast) < last.row.amount

\* the lots recorded under the id of the last row
LotsOfLast ==
    SelectSeq(AccountLots(fifo_inventory, LongKey, LongAccount),
              LAMBDA b : b.batch_id = last.row.id)

LeftOf(id) ==
    SumQuantity(SelectSeq(AccountLots(fifo_inventory, LongKey, LongAccount),
                          LAMBDA b : b.batch_id = id /\ b.quantity > 0))

\* the positive lots the last row reduced or removed
ReducedByLast ==
    SelectSeq(PositiveBefore, LAMBDA b : LeftOf(b.batch_id) < b.quantity)

----------------------------------------------------------------------------
(* The position table after update_position and rebuild_all_positions *)

\* add_transaction calls in a run of the position specification
MaxPosTx == 2

\* add_transaction without a store failure
AddPositionTransaction ==
    /\ hist.adds < MaxPosTx
    /\ \E t \in NewRows(LedgerAccounts, {"buy", "sell"}) \cup Dividends :
          Submit(t, FALSE)

NextPositions == AddPositionTransaction \/ RebuildAllPositions

SpecPositions == Init /\ [][NextPositions]_vars

\* the row of (key, account) in pos/avg is what the sync writes for the
\* quantity and book value the ledger's engine holds in m
RowReflects(m, pos, avg, key, account) ==
    LET q == InventoryQuantity(m, key, account)
        book_value == InventoryBookValue(m, key, account)
    IN /\ q > EPS => /\ pos[key][account] = q
                     /\ avg[key][account]
                            = RoundDiv(Abs(book_value) * 100 * QtyPerShare, q)
       /\ (q <= EPS /\ q >= -EPS) => /\ pos[key][account] = 0
                                     /\ avg[key][account] = 0
       /\ q < -EPS => pos[key][account] = q

----------------------------------------------------------------------------
(* Confirmed units and rounding differences of the series *)

\* the units outstanding at the end of the entry before row r (0: none)
UnitsBefore(r) ==
    IF PreviousEntry(r) = {} THEN 0
    ELSE (CHOOSE p \in PreviousEntry(r) : TRUE).total_shares

\* the rounding-diff events stored for a date
EventsOn(date) == {e \in rounding_diff : e.date = date}

\* C27: on every series day, confirmed units = round(capital flow / the
\* day's unit price, SHARE_DECIMAL_PLACES) and units outstanding = previous
\* units outstanding + confirmed units; the day has a rounding-diff event
\* exactly when the raw units differ from the confirmed units, and the
\* event's amount is (raw - confirmed) * the day's unit price; a day with
\* zero flow has zero confirmed units, unchanged units outstanding and no
\* event.  Events exist for series days only.
C27_ConfirmedUnitsAndDiffs ==
    AfterFull =>
        /\ \A r \in return_rate :
              /\ r.capital_amount # 0 =>
                    \E c \in {ConfirmShares(r.capital_amount, r.nav)} :
                        /\ r.confirmed_shares = c.value
                        /\ r.total_shares = UnitsBefore(r) + c.value
                        /\ (EventsOn(r.date) # {}) <=> ~c.exact
                        /\ \A e \in EventsOn(r.date) :
                              /\ e.confirmed_shares = c.value
                              /\ e.rounding_amount = c.rest
                              /\ e.confirm_nav = r.nav
              /\ r.capital_amount = 0 =>
                    /\ r.confirmed_shares = 0
                    /\ r.total_shares = UnitsBefore(r)
                    /\ EventsOn(r.date) = {}
        /\ \A e \in rounding_diff : \E r \in return_rate : r.date = e.date

\* a series with a day of zero flow and a later day whose flow does not
\* divide into whole units at the day's unit price
C27_WitnessDiffAfterQuietDay ==
    /\ AfterFull
    /\ \E r, q \in return_rate :
          /\ r.capital_amount = 0
          /\ q.date > r.date
          /\ q.nav # initial_nav
          /\ EventsOn(q.date) # {}

----------------------------------------------------------------------------
(* The WAC engine: buys against a short balance, sells on a balance *)

\* the realized events the WAC engine holds for the last row
WACEventsOfLast ==
    SelectSeq(wac_inventory.realized_pl_details,
              LAMBDA p : p.transaction_id = last.row.id /\ p.account = last.row.account)

\* C28: a WAC buy processed against a balance of negative quantity records a
\* realized P&L event of that buy for the covered quantity.
C28_BuyOnShortRecordsEvent ==
    (LastIs("buy") /\ ~last.raised /\ last.wac_before # NoBalance
       /\ last.wac_before.quantity < 0) =>
        WACEventsOfLast # <<>>

\* the last realized event of the WAC engine
LastWACEvent ==
    wac_inventory.realized_pl_details[Len(wac_inventory.realized_pl_details)]

\* C29: a WAC sell of quantity q with proceeds P on an existing balance of
\* average cost a appends exactly one realized event, with cost =
\* round(q * a) half-up to the cent from the average before the sale and
\* profit = P - cost, and the balance that remains keeps the average cost a.
C29_SellAtAverageCost ==
    [][(last'.op = "process" /\ last'.row.type = "sell"
          /\ last'.wac_before # NoBalance) =>
          /\ Len(wac_inventory'.realized_pl_details)
                 = Len(wac_inventory.realized_pl_details) + 1
          /\ SubSeq(wac_inventory'.realized_pl_details, 1,
                    Len(wac_inventory.realized_pl_details))
                 = wac_inventory.realized_pl_details
          /\ LastWACEvent'.transaction_id = last'.row.id
          /\ LastWACEvent'.sold_quantity = last'.row.quantity
          /\ LastWACEvent'.cost
                 = RoundDiv(last'.row.quantity * last'.wac_before.avg_cost,
                            100 * QtyPerShare)
          /\ LastWACEvent'.profit = last'.row.amount - LastWACEvent'.cost
          /\ BalanceAfter' # NoBalance =>
                 BalanceAfter'.avg_cost = last'.wac_before.avg_cost
      ]_vars

\* a sale out of a balance bought in two parts: the cost at the average is
\* rounded to the cent, and a balance remains
C29_WitnessRoundedCost ==
    /\ LastIs("sell") /\ last.wac_before # NoBalance
    /\ last.wac_before.quantity > last.row.quantity
    /\ BalanceAfter # NoBalance
    /\ LastWACEvent.transaction_id = last.row.id
    /\ LastWACEvent.cost * 100 * QtyPerShare
           # last.row.quantity * last.wac_before.avg_cost
    /\ LastWACEvent.profit # 0

----------------------------------------------------------------------------
(* What process() leaves alone *)

\* the lots of an account under a key, whatever their place in the list
LotSet(fifo, key, account) ==
    {AccountLots(fifo, key, account)[i] :
        i \in 1..Len(AccountLots(fifo, key, account))}

IsPrefix(s, t) == Len(s) <= Len(t) /\ SubSeq(t, 1, Len(s)) = s

\* C30: processing a transaction of (ledger, security, account) changes no
\* FIFO lot and no WAC balance of any other (ledger, security, account), and
\* the realized P&L events recorded before are all still there, unaltered
\* and in place, after every step but clear_inventory: process() only
\* appends.
C30_ProcessTouchesOwnKeyOnly ==
    [][/\ last'.op = "process" =>
             \A k \in Keys, a \in Accounts :
                 (k # _make_key(last'.row.ledger_id, last'.row.code)
                    \/ a # last'.row.account) =>
                     /\ LotSet(fifo_inventory', k, a) = LotSet(fifo_inventory, k, a)
                     /\ Len(AccountLots(fifo_inventory', k, a))
                            = Len(AccountLots(fifo_inventory, k, a))
                     /\ wac_inventory'.inventory[k][a] = wac_inventory.inventory[k][a]
       /\ last'.op # "clear" =>
             /\ IsPrefix(fifo_inventory.realized_pl_details,
                         fifo_inventory'.realized_pl_details)
             /\ IsPrefix(wac_inventory.realized_pl_details,
                         wac_inventory'.realized_pl_details)
      ]_vars

\* a sale of one account recorded an event while the other account of the
\* same ledger and security holds a lot
C30_WitnessSaleBesideOtherAccount ==
    /\ LastIs("sell") /\ ~last.raised
    /\ \E i \in 1..Len(fifo_inventory.realized_pl_details) :
          fifo_inventory.realized_pl_details[i].transaction_id = last.row.id
    /\ \E a \in Accounts :
          /\ a # last.row.account
          /\ AccountLots(fifo_inventory, LastKey, a) # <<>>


====
